---- MODULE Spec2Model ----
(***************************************************************************)
(* Model of the PingOps outbound-call capture pipeline                     *)
(* (pingops-io/pingops-js): the domain filter, the header filter and       *)
(* redaction, the capture policy resolver, the undici request lifecycle    *)
(* tracker with its body buffers, and the span processor's export gate.    *)
(*                                                                         *)
(* Conventions.                                                            *)
(*  - A JavaScript string is a sequence of one-character strings.          *)
(*  - An optional value (T | undefined) is a set with at most one element: *)
(*    {} is undefined, {v} is the value v.                                 *)
(*  - A pure function of the source is an operator of the same name; it is *)
(*    exercised by a specification whose Init draws the arguments (call)   *)
(*    and whose single action stores the result (ret).                     *)
(*  - The undici tracker is the specification Spec: one action per         *)
(*    diagnostics-channel handler, each including the span processor's     *)
(*    onEnd that span.end() runs; observed is a history variable that the  *)
(*    handlers never read.                                                 *)
(***************************************************************************)
EXTENDS Integers, Sequences, FiniteSets, TLC

VARIABLES
    call,           \* the arguments of the pure function under check
    ret,            \* {} before the call, {result} after it
    processorConfig, \* PingopsSpanProcessor.config and the global config store
    requests,       \* the undici requests of the run, by identity
    recordFromReq,  \* UndiciInstrumentation._recordFromReq
    spans,          \* the span started for each request, if any
    exported,       \* the payloads handed to the underlying span processor
    observed,       \* what has been delivered so far, per request (history)
    logger,         \* the logger.error lines of PingopsSpanProcessor
    httpHook,       \* what the hooks of PingopsHttpInstrumentation close over
    sdk,            \* the module state of packages/sdk/src/pingops.ts and what it started
    undici          \* UndiciInstrumentation._channelSubs and the diagnostics channels' subscribers

fnVars == <<call, ret>>
trackerVars == <<processorConfig, requests, recordFromReq, spans, exported, observed, logger, httpHook, sdk, undici>>
vars == <<call, ret, processorConfig, requests, recordFromReq, spans, exported, observed, logger, httpHook, sdk, undici>>

\* The specifications of the pure functions run without a tracker.
NoTracker ==
    /\ processorConfig = <<>> /\ requests = <<>> /\ recordFromReq = <<>>
    /\ spans = <<>> /\ exported = <<>> /\ observed = <<>> /\ logger = <<>>
    /\ httpHook = <<>> /\ sdk = <<>> /\ undici = <<>>

----------------------------------------------------------------------------
(* Optional values and strings *)

Undefined == {}
Some(v) == {v}
IsDefined(o) == o # {}
ValueOf(o) == CHOOSE v \in o : TRUE

SeqsUpTo(S, n) == UNION {[1..k -> S] : k \in 0..n}

startsWith(s, p) == Len(p) <= Len(s) /\ SubSeq(s, 1, Len(p)) = p
endsWith(s, p) == Len(p) <= Len(s) /\ SubSeq(s, Len(s) - Len(p) + 1, Len(s)) = p
slice(s, n) == SubSeq(s, n + 1, Len(s))

\* Length of the longest prefix of s that holds no "/" (the regex [^/]*).
RECURSIVE NonSlashRun(_)
NonSlashRun(s) ==
    IF s = <<>> \/ Head(s) = "/" THEN 0 ELSE 1 + NonSlashRun(Tail(s))

RECURSIVE StripLeadingSlashes(_)
StripLeadingSlashes(s) ==
    IF s # <<>> /\ Head(s) = "/" THEN StripLeadingSlashes(Tail(s)) ELSE s

HTTPS == <<"h", "t", "t", "p", "s", ":", "/", "/">>
HTTP == <<"h", "t", "t", "p", ":", "/", "/">>

\* The regex prefix (?:https?:\/\/)? : the length of the scheme it can consume.
SchemeLen(url) ==
    IF startsWith(url, HTTPS) THEN Len(HTTPS)
    ELSE IF startsWith(url, HTTP) THEN Len(HTTP)
    ELSE 0

\* new URL(url) for strings over letters, "." and "/" with an optional
\* http(s):// prefix.  Without a scheme the string is a relative reference and
\* the constructor throws; after a special scheme extra slashes are skipped and
\* an empty host is a failure; the path defaults to "/".
NewURL(url) ==
    LET n == SchemeLen(url)
        rest == StripLeadingSlashes(slice(url, n))
        h == NonSlashRun(rest)
    IN  IF n = 0 \/ rest = <<>>
        THEN [ok |-> FALSE, hostname |-> <<>>, pathname |-> <<>>]
        ELSE [ok |-> TRUE,
              hostname |-> SubSeq(rest, 1, h),
              pathname |-> IF h = Len(rest) THEN <<"/">> ELSE slice(rest, h)]

----------------------------------------------------------------------------
(* Domain filter: packages/core/src/filtering/domain-filter.ts *)

\* url.match(/^(?:https?:\/\/)?([^/]+)/): group 1, or "" when nothing matches.
\* The optional scheme is given up when no host character follows it.
RegexDomain(url) ==
    LET n == SchemeLen(url)
        afterScheme == slice(url, n)
    IN  IF n > 0 /\ NonSlashRun(afterScheme) > 0
        THEN SubSeq(afterScheme, 1, NonSlashRun(afterScheme))
        ELSE SubSeq(url, 1, NonSlashRun(url))

\* url.match(/^(?:https?:\/\/)?[^/]+(\/.*)?$/): group 1, or "/" when it is
\* absent or nothing matches.
RegexPath(url) ==
    LET n == SchemeLen(url)
        afterScheme == slice(url, n)
        body == IF n > 0 /\ NonSlashRun(afterScheme) > 0 THEN afterScheme ELSE url
        h == NonSlashRun(body)
    IN  IF h = 0 \/ h = Len(body) THEN <<"/">> ELSE slice(body, h)

extractDomain(url) ==
    IF NewURL(url).ok THEN NewURL(url).hostname ELSE RegexDomain(url)

extractPath(url) ==
    IF NewURL(url).ok THEN NewURL(url).pathname ELSE RegexPath(url)

domainMatches_noBare(domain, ruleDomain) ==
    IF domain = ruleDomain THEN TRUE
    ELSE IF startsWith(ruleDomain, <<".">>) THEN endsWith(domain, ruleDomain)
    ELSE FALSE

domainMatches(domain, ruleDomain) ==
    IF domain = ruleDomain THEN TRUE
    ELSE IF startsWith(ruleDomain, <<".">>)
         THEN endsWith(domain, ruleDomain) \/ domain = slice(ruleDomain, 1)
    ELSE FALSE

pathMatches_exact(path, allowedPaths) ==
    IF ~IsDefined(allowedPaths) \/ Len(ValueOf(allowedPaths)) = 0 THEN TRUE
    ELSE \E i \in 1..Len(ValueOf(allowedPaths)) :
            path = ValueOf(allowedPaths)[i]

pathMatches(path, allowedPaths) ==
    IF ~IsDefined(allowedPaths) \/ Len(ValueOf(allowedPaths)) = 0 THEN TRUE
    ELSE \E i \in 1..Len(ValueOf(allowedPaths)) :
            startsWith(path, ValueOf(allowedPaths)[i])

\* The deny loop of shouldCaptureSpan.
DeniedByList(domain, domainDenyList) ==
    /\ IsDefined(domainDenyList)
    /\ \E i \in 1..Len(ValueOf(domainDenyList)) :
          domainMatches(domain, ValueOf(domainDenyList)[i].domain)

\* The allow loop of shouldCaptureSpan: some rule returns true.
AllowedByList(domain, path, rules) ==
    \E i \in 1..Len(rules) :
       /\ domainMatches(domain, rules[i].domain)
       /\ IF IsDefined(rules[i].paths) /\ Len(ValueOf(rules[i].paths)) > 0
          THEN pathMatches(path, rules[i].paths)
          ELSE TRUE

shouldCaptureSpan_allowFirst(url, domainAllowList, domainDenyList) ==
    LET domain == extractDomain(url)
        path == extractPath(url)
    IN  IF IsDefined(domainAllowList) /\ Len(ValueOf(domainAllowList)) > 0
           /\ AllowedByList(domain, path, ValueOf(domainAllowList))
        THEN TRUE
        ELSE IF DeniedByList(domain, domainDenyList) THEN FALSE
        ELSE ~IsDefined(domainAllowList) \/ Len(ValueOf(domainAllowList)) = 0

shouldCaptureSpan(url, domainAllowList, domainDenyList) ==
    LET domain == extractDomain(url)
        path == extractPath(url)
    IN  IF DeniedByList(domain, domainDenyList) THEN FALSE
        ELSE IF ~IsDefined(domainAllowList) \/ Len(ValueOf(domainAllowList)) = 0
        THEN TRUE
        ELSE AllowedByList(domain, path, ValueOf(domainAllowList))

----------------------------------------------------------------------------
(* Arguments for the domain filter *)

MaxDomainLen == 3
MaxRules == 2

DomainChars == {"a", "b", "."}

EXAMPLE_COM == <<"e", "x", "a", "m", "p", "l", "e", ".", "c", "o", "m">>
DOT_EXAMPLE_COM == <<".">> \o EXAMPLE_COM
API_EXAMPLE_COM == <<"a", "p", "i", ".">> \o EXAMPLE_COM
NOTEXAMPLE_COM == <<"n", "o", "t">> \o EXAMPLE_COM
ExampleDomains == {EXAMPLE_COM, DOT_EXAMPLE_COM, API_EXAMPLE_COM, NOTEXAMPLE_COM}

DomainStrings == SeqsUpTo(DomainChars, MaxDomainLen) \cup ExampleDomains

DomainMatchesCalls ==
    [op : {"domainMatches"}, domain : DomainStrings, ruleDomain : DomainStrings]

UrlSchemes == {<<>>, HTTPS}
UrlHosts == {<<>>, <<"a">>, <<"b", ".", "a">>, <<"b", "a">>}
UrlPaths == {<<>>, <<"/", "a">>, <<"/", "a", "b">>, <<"/", "b">>}
Urls == {s \o h \o p : s \in UrlSchemes, h \in UrlHosts, p \in UrlPaths}

AllowRuleDomains == {<<".", "a">>, <<"b", ".", "a">>}
DenyRuleDomains == {<<"a">>, <<".", "a">>}
RulePaths == {Undefined, Some(<<>>), Some(<<<<"/", "a">>>>)}

\* DomainRule of packages/core/src/types.ts; every field but domain is optional.
DomainRule(domain, paths, headersAllowList, headersDenyList, captureRequestBody, captureResponseBody) ==
    [domain |-> domain, paths |-> paths,
     headersAllowList |-> headersAllowList, headersDenyList |-> headersDenyList,
     captureRequestBody |-> captureRequestBody,
     captureResponseBody |-> captureResponseBody]

PathRule(d, p) == DomainRule(d, p, Undefined, Undefined, Undefined, Undefined)
AllowRules == {PathRule(d, p) : d \in AllowRuleDomains, p \in RulePaths}
DenyRules == {PathRule(d, Undefined) : d \in DenyRuleDomains}

OptionalLists(S) == {Undefined} \cup {Some(l) : l \in SeqsUpTo(S, MaxRules)}

ShouldCaptureSpanCalls ==
    [op : {"shouldCaptureSpan"}, url : Urls,
     domainAllowList : OptionalLists(AllowRules),
     domainDenyList : OptionalLists(DenyRules)]

----------------------------------------------------------------------------
(* Specifications of the domain filter's functions *)

InitDomainMatches == call \in DomainMatchesCalls /\ ret = {} /\ NoTracker

CallDomainMatches ==
    /\ call.op = "domainMatches" /\ ret = {}
    /\ ret' = {domainMatches(call.domain, call.ruleDomain)}
    /\ UNCHANGED call /\ UNCHANGED trackerVars

SpecDomainMatches == InitDomainMatches /\ [][CallDomainMatches]_vars

InitShouldCaptureSpan == call \in ShouldCaptureSpanCalls /\ ret = {} /\ NoTracker

CallShouldCaptureSpan ==
    /\ call.op = "shouldCaptureSpan" /\ ret = {}
    /\ ret' = {shouldCaptureSpan(call.url, call.domainAllowList, call.domainDenyList)}
    /\ UNCHANGED call /\ UNCHANGED trackerVars

SpecShouldCaptureSpan == InitShouldCaptureSpan /\ [][CallShouldCaptureSpan]_vars

----------------------------------------------------------------------------
(* C7, C8, C9: the Domain/Path Matcher *)

\* Some rule of the list matches the domain under the documented rule:
\* equality, or a leading-dot rule that is a suffix of the domain or equals it
\* once the dot is removed.
RuleMatchesDomain(domain, ruleDomain) ==
    \/ domain = ruleDomain
    \/ /\ ruleDomain # <<>> /\ Head(ruleDomain) = "."
       /\ \/ endsWith(domain, ruleDomain)
          \/ domain = Tail(ruleDomain)

\* The domain and the path the filter judges a URL by: the parsed ones, and
\* the regex-extracted ones when the URL does not parse.
JudgedDomain(url) == IF NewURL(url).ok THEN NewURL(url).hostname ELSE RegexDomain(url)
JudgedPath(url) == IF NewURL(url).ok THEN NewURL(url).pathname ELSE RegexPath(url)

SomeDenyRuleMatches(c) ==
    /\ IsDefined(c.domainDenyList)
    /\ \E i \in 1..Len(ValueOf(c.domainDenyList)) :
          RuleMatchesDomain(JudgedDomain(c.url), ValueOf(c.domainDenyList)[i].domain)

SomeAllowRuleAccepts(c) ==
    /\ IsDefined(c.domainAllowList)
    /\ \E i \in 1..Len(ValueOf(c.domainAllowList)) :
          LET rule == ValueOf(c.domainAllowList)[i]
          IN  /\ RuleMatchesDomain(JudgedDomain(c.url), rule.domain)
              /\ \/ ~IsDefined(rule.paths)
                 \/ ValueOf(rule.paths) = <<>>
                 \/ \E j \in 1..Len(ValueOf(rule.paths)) :
                       startsWith(JudgedPath(c.url), ValueOf(rule.paths)[j])

NoAllowListConfigured(c) ==
    ~IsDefined(c.domainAllowList) \/ ValueOf(c.domainAllowList) = <<>>

\* C7: whenever some deny rule matches the URL's domain, shouldCaptureSpan
\* returns false, whatever the allow list holds.
C7_DenyWins ==
    (call.op = "shouldCaptureSpan" /\ ret # {} /\ SomeDenyRuleMatches(call))
        => ret = {FALSE}

\* A URL denied although an allow rule accepts the same domain and path.
C7_Witness ==
    /\ call.op = "shouldCaptureSpan" /\ ret = {FALSE}
    /\ SomeDenyRuleMatches(call) /\ SomeAllowRuleAccepts(call)

\* C8: for a URL no deny rule matches, the result is true without an allow
\* list, and with one it is true exactly when some allow rule matches the
\* domain and has no path restriction or a prefix of the path; a URL that
\* does not parse is judged by its regex-extracted domain and path.
C8_AllowList ==
    (call.op = "shouldCaptureSpan" /\ ret # {} /\ ~SomeDenyRuleMatches(call))
        => ret = {IF NoAllowListConfigured(call) THEN TRUE
                  ELSE SomeAllowRuleAccepts(call)}

\* A URL that does not parse, accepted through a rule with a path prefix.
C8_Witness ==
    /\ call.op = "shouldCaptureSpan" /\ ret = {TRUE}
    /\ ~NewURL(call.url).ok /\ ~NoAllowListConfigured(call)
    /\ ~SomeDenyRuleMatches(call)
    /\ \A i \in 1..Len(ValueOf(call.domainAllowList)) :
          IsDefined(ValueOf(call.domainAllowList)[i].paths)
          /\ ValueOf(ValueOf(call.domainAllowList)[i].paths) # <<>>

\* C9: domainMatches holds exactly for equal domains and for a leading-dot
\* rule that the domain ends with or equals without the dot; ".example.com"
\* matches "api.example.com" and "example.com" but not "notexample.com", and
\* a rule without a leading dot matches only the identical domain.
C9_DomainMatches ==
    (call.op = "domainMatches" /\ ret # {}) =>
        /\ ret = {RuleMatchesDomain(call.domain, call.ruleDomain)}
        /\ (call.ruleDomain = DOT_EXAMPLE_COM /\ call.domain = API_EXAMPLE_COM)
              => ret = {TRUE}
        /\ (call.ruleDomain = DOT_EXAMPLE_COM /\ call.domain = EXAMPLE_COM)
              => ret = {TRUE}
        /\ (call.ruleDomain = DOT_EXAMPLE_COM /\ call.domain = NOTEXAMPLE_COM)
              => ret = {FALSE}
        /\ (call.ruleDomain # <<>> /\ Head(call.ruleDomain) # ".")
              => (ret = {TRUE} <=> call.domain = call.ruleDomain)

\* The bare domain matched by its leading-dot rule.
C9_Witness ==
    /\ call.op = "domainMatches" /\ ret = {TRUE}
    /\ call.ruleDomain = DOT_EXAMPLE_COM /\ call.domain = EXAMPLE_COM

----------------------------------------------------------------------------
(* Redaction: packages/core/src/filtering/sensitive-headers.ts *)

\* A header value: string | string[] | undefined.
StringValue(s) == [tag |-> "string", items |-> <<s>>]
ArrayValue(a) == [tag |-> "array", items |-> a]
UndefinedValue == [tag |-> "undefined", items |-> <<>>]

Max(a, b) == IF a >= b THEN a ELSE b

IsWhitespace(c) == c = " "

RECURSIVE trimStart(_)
trimStart(s) ==
    IF s # <<>> /\ IsWhitespace(Head(s)) THEN trimStart(Tail(s)) ELSE s

RECURSIVE trimEnd(_)
trimEnd(s) ==
    IF s # <<>> /\ IsWhitespace(s[Len(s)])
    THEN trimEnd(SubSeq(s, 1, Len(s) - 1)) ELSE s

trim(s) == trimEnd(trimStart(s))

substring(s, from, to) == SubSeq(s, from + 1, to)

redactSingleValue_offByOne(value, config) ==
    IF value = <<>> THEN value
    ELSE
      LET visibleChars == Max(0, config.visibleChars)
          trimmedValue == trim(value)
      IN  IF Len(trimmedValue) = 0 THEN config.redactionString
          ELSE IF config.strategy = "replace" THEN config.redactionString
          ELSE IF config.strategy = "partial" THEN
              IF Len(trimmedValue) < visibleChars THEN config.redactionString
              ELSE substring(trimmedValue, 0, visibleChars) \o config.redactionString
          ELSE IF config.strategy = "partial_end" THEN
              IF Len(trimmedValue) < visibleChars THEN config.redactionString
              ELSE config.redactionString
                     \o slice(trimmedValue, Len(trimmedValue) - visibleChars)
          ELSE config.redactionString

redactSingleValue(value, config) ==
    IF value = <<>> THEN value
    ELSE
      LET visibleChars == Max(0, config.visibleChars)
          trimmedValue == trim(value)
      IN  IF Len(trimmedValue) = 0 THEN config.redactionString
          ELSE IF config.strategy = "replace" THEN config.redactionString
          ELSE IF config.strategy = "partial" THEN
              IF Len(trimmedValue) <= visibleChars THEN config.redactionString
              ELSE substring(trimmedValue, 0, visibleChars) \o config.redactionString
          ELSE IF config.strategy = "partial_end" THEN
              IF Len(trimmedValue) <= visibleChars THEN config.redactionString
              ELSE config.redactionString
                     \o slice(trimmedValue, Len(trimmedValue) - visibleChars)
          ELSE config.redactionString

redactHeaderValue(value, config) ==
    IF value.tag = "undefined" THEN value
    ELSE IF value.tag = "array"
    THEN ArrayValue([i \in 1..Len(value.items) |->
                        redactSingleValue(value.items[i], config)])
    ELSE StringValue(redactSingleValue(value.items[1], config))

----------------------------------------------------------------------------
(* Arguments for redactHeaderValue *)

MaxValueLen == 3
MaxVisibleChars == 2

ValueChars == {"s", "k", " "}
Strategies == {"replace", "partial", "partial_end", "remove"}
REDACTED == <<"#">>

RedactValues ==
    {StringValue(s) : s \in SeqsUpTo(ValueChars, MaxValueLen)}
      \cup {UndefinedValue, ArrayValue(<<<<"s", "k">>, <<"k">>>>)}

RedactConfigs ==
    [strategy : Strategies, redactionString : {REDACTED},
     visibleChars : (-1)..MaxVisibleChars, enabled : {TRUE},
     sensitivePatterns : {<<>>}]

RedactHeaderValueCalls ==
    [op : {"redactHeaderValue"}, value : RedactValues, config : RedactConfigs]

InitRedactHeaderValue == call \in RedactHeaderValueCalls /\ ret = {} /\ NoTracker

CallRedactHeaderValue ==
    /\ call.op = "redactHeaderValue" /\ ret = {}
    /\ ret' = {redactHeaderValue(call.value, call.config)}
    /\ UNCHANGED call /\ UNCHANGED trackerVars

SpecRedactHeaderValue == InitRedactHeaderValue /\ [][CallRedactHeaderValue]_vars

----------------------------------------------------------------------------
(* C10: redactHeaderValue on a string value *)

RedactedString(c) ==
    c.op = "redactHeaderValue" /\ ret # {} /\ c.value.tag = "string"
    /\ c.config.visibleChars >= 0

TheValue(c) == c.value.items[1]
TheResult == ValueOf(ret).items[1]

\* C10 as stated: a string value of length <= v is rendered as the redaction
\* string alone; a longer one keeps exactly its first v characters under
\* PARTIAL and exactly its last v under PARTIAL_END.
C10_AsStated ==
    RedactedString(call) =>
        LET v == call.config.visibleChars
            value == TheValue(call)
            R == call.config.redactionString
        IN  /\ Len(value) <= v => TheResult = R
            /\ (Len(value) > v /\ call.config.strategy = "partial")
                  => TheResult = SubSeq(value, 1, v) \o R
            /\ (Len(value) > v /\ call.config.strategy = "partial_end")
                  => TheResult = R \o SubSeq(value, Len(value) - v + 1, Len(value))

\* C10 (amended): the empty string is returned unchanged; any other value is
\* judged by its length after surrounding whitespace is trimmed: at most v
\* characters give the redaction string alone under every strategy, more than
\* v give the first v characters of the trimmed value followed by the
\* redaction string under PARTIAL and the redaction string followed by the
\* last v characters of the trimmed value under PARTIAL_END; REPLACE and
\* REMOVE always give the redaction string alone.
C10_Redaction ==
    RedactedString(call) =>
        LET v == call.config.visibleChars
            value == TheValue(call)
            t == trim(value)
            R == call.config.redactionString
        IN  /\ value = <<>> => TheResult = <<>>
            /\ (value # <<>> /\ Len(t) <= v) => TheResult = R
            /\ (value # <<>> /\ call.config.strategy \in {"replace", "remove"})
                  => TheResult = R
            /\ (Len(t) > v /\ call.config.strategy = "partial")
                  => TheResult = SubSeq(t, 1, v) \o R
            /\ (Len(t) > v /\ call.config.strategy = "partial_end")
                  => TheResult = R \o SubSeq(t, Len(t) - v + 1, Len(t))

\* A value exactly v characters long, fully redacted under PARTIAL.
C10_Witness ==
    /\ RedactedString(call) /\ call.config.strategy = "partial"
    /\ call.config.visibleChars > 0
    /\ Len(TheValue(call)) = call.config.visibleChars
    /\ trim(TheValue(call)) = TheValue(call)
    /\ TheResult = call.config.redactionString

----------------------------------------------------------------------------
(* Header filter: packages/core/src/filtering/header-filter.ts *)

UPPERCASE == <<"A", "B", "C", "D", "E", "F", "G", "H", "I", "J", "K", "L", "M", "N", "O", "P", "Q", "R", "S", "T", "U", "V", "W", "X", "Y", "Z">>
LOWERCASE == <<"a", "b", "c", "d", "e", "f", "g", "h", "i", "j", "k", "l", "m", "n", "o", "p", "q", "r", "s", "t", "u", "v", "w", "x", "y", "z">>

toLowerCaseChar(c) ==
    IF \E i \in 1..Len(UPPERCASE) : UPPERCASE[i] = c
    THEN LOWERCASE[CHOOSE i \in 1..Len(UPPERCASE) : UPPERCASE[i] = c]
    ELSE c

toLowerCase(s) == [i \in 1..Len(s) |-> toLowerCaseChar(s[i])]

includes(s, sub) ==
    \E i \in 1..(Len(s) - Len(sub) + 1) : SubSeq(s, i, i + Len(sub) - 1) = sub

\* Array.prototype.includes on a list of strings.
listIncludes(list, x) == \E i \in 1..Len(list) : list[i] = x

DEFAULT_SENSITIVE_HEADER_PATTERNS == <<
    <<"a", "u", "t", "h", "o", "r", "i", "z", "a", "t", "i", "o", "n">>,
    <<"w", "w", "w", "-", "a", "u", "t", "h", "e", "n", "t", "i", "c", "a", "t", "e">>,
    <<"p", "r", "o", "x", "y", "-", "a", "u", "t", "h", "e", "n", "t", "i", "c", "a", "t", "e">>,
    <<"p", "r", "o", "x", "y", "-", "a", "u", "t", "h", "o", "r", "i", "z", "a", "t", "i", "o", "n">>,
    <<"x", "-", "a", "u", "t", "h", "-", "t", "o", "k", "e", "n">>,
    <<"x", "-", "a", "p", "i", "-", "k", "e", "y">>,
    <<"x", "-", "a", "p", "i", "-", "t", "o", "k", "e", "n">>,
    <<"x", "-", "a", "c", "c", "e", "s", "s", "-", "t", "o", "k", "e", "n">>,
    <<"x", "-", "a", "u", "t", "h", "-", "u", "s", "e", "r">>,
    <<"x", "-", "a", "u", "t", "h", "-", "p", "a", "s", "s", "w", "o", "r", "d">>,
    <<"x", "-", "c", "s", "r", "f", "-", "t", "o", "k", "e", "n">>,
    <<"x", "-", "x", "s", "r", "f", "-", "t", "o", "k", "e", "n">>,
    <<"a", "p", "i", "-", "k", "e", "y">>,
    <<"a", "p", "i", "k", "e", "y">>,
    <<"a", "p", "i", "_", "k", "e", "y">>,
    <<"a", "c", "c", "e", "s", "s", "-", "k", "e", "y">>,
    <<"a", "c", "c", "e", "s", "s", "k", "e", "y">>,
    <<"a", "c", "c", "e", "s", "s", "_", "k", "e", "y">>,
    <<"s", "e", "c", "r", "e", "t", "-", "k", "e", "y">>,
    <<"s", "e", "c", "r", "e", "t", "k", "e", "y">>,
    <<"s", "e", "c", "r", "e", "t", "_", "k", "e", "y">>,
    <<"p", "r", "i", "v", "a", "t", "e", "-", "k", "e", "y">>,
    <<"p", "r", "i", "v", "a", "t", "e", "k", "e", "y">>,
    <<"p", "r", "i", "v", "a", "t", "e", "_", "k", "e", "y">>,
    <<"c", "o", "o", "k", "i", "e">>,
    <<"s", "e", "t", "-", "c", "o", "o", "k", "i", "e">>,
    <<"s", "e", "s", "s", "i", "o", "n", "-", "i", "d">>,
    <<"s", "e", "s", "s", "i", "o", "n", "i", "d">>,
    <<"s", "e", "s", "s", "i", "o", "n", "_", "i", "d">>,
    <<"s", "e", "s", "s", "i", "o", "n", "-", "t", "o", "k", "e", "n">>,
    <<"s", "e", "s", "s", "i", "o", "n", "t", "o", "k", "e", "n">>,
    <<"s", "e", "s", "s", "i", "o", "n", "_", "t", "o", "k", "e", "n">>,
    <<"o", "a", "u", "t", "h", "-", "t", "o", "k", "e", "n">>,
    <<"o", "a", "u", "t", "h", "_", "t", "o", "k", "e", "n">>,
    <<"o", "a", "u", "t", "h", "2", "-", "t", "o", "k", "e", "n">>,
    <<"o", "a", "u", "t", "h", "2", "_", "t", "o", "k", "e", "n">>,
    <<"b", "e", "a", "r", "e", "r">>,
    <<"x", "-", "a", "m", "z", "-", "s", "e", "c", "u", "r", "i", "t", "y", "-", "t", "o", "k", "e", "n">>,
    <<"x", "-", "a", "m", "z", "-", "s", "i", "g", "n", "a", "t", "u", "r", "e">>,
    <<"x", "-", "a", "w", "s", "-", "a", "c", "c", "e", "s", "s", "-", "k", "e", "y">>,
    <<"x", "-", "a", "w", "s", "-", "s", "e", "c", "r", "e", "t", "-", "k", "e", "y">>,
    <<"x", "-", "a", "w", "s", "-", "s", "e", "s", "s", "i", "o", "n", "-", "t", "o", "k", "e", "n">>,
    <<"x", "-", "p", "a", "s", "s", "w", "o", "r", "d">>,
    <<"x", "-", "s", "e", "c", "r", "e", "t">>,
    <<"x", "-", "t", "o", "k", "e", "n">>,
    <<"x", "-", "j", "w", "t">>,
    <<"x", "-", "j", "w", "t", "-", "t", "o", "k", "e", "n">>,
    <<"x", "-", "r", "e", "f", "r", "e", "s", "h", "-", "t", "o", "k", "e", "n">>,
    <<"x", "-", "c", "l", "i", "e", "n", "t", "-", "s", "e", "c", "r", "e", "t">>,
    <<"x", "-", "c", "l", "i", "e", "n", "t", "-", "i", "d">>,
    <<"x", "-", "u", "s", "e", "r", "-", "t", "o", "k", "e", "n">>,
    <<"x", "-", "s", "e", "r", "v", "i", "c", "e", "-", "k", "e", "y">>
>>

DEFAULT_VISIBLE_CHARS == 4

DEFAULT_REDACTION_CONFIG ==
    [sensitivePatterns |-> DEFAULT_SENSITIVE_HEADER_PATTERNS,
     strategy |-> "replace",
     redactionString |-> <<"[", "R", "E", "D", "A", "C", "T", "E", "D", "]">>,
     visibleChars |-> DEFAULT_VISIBLE_CHARS,
     enabled |-> TRUE]

\* a ?? b on an optional value
OrElse(o, d) == IF IsDefined(o) THEN ValueOf(o) ELSE d

isSensitiveHeader(headerName, patterns) ==
    IF headerName = <<>> THEN FALSE
    ELSE IF Len(patterns) = 0 THEN FALSE
    ELSE
      LET normalizedName == trim(toLowerCase(headerName))
      IN  IF Len(normalizedName) = 0 THEN FALSE
          ELSE \E i \in 1..Len(patterns) :
                  LET normalizedPattern == trim(toLowerCase(patterns[i]))
                  IN  /\ patterns[i] # <<>>
                      /\ Len(normalizedPattern) # 0
                      /\ \/ normalizedName = normalizedPattern
                         \/ includes(normalizedName, normalizedPattern)
                         \/ includes(normalizedPattern, normalizedName)

normalizeHeaderName(name) == toLowerCase(name)

mergeRedactionConfig(config) ==
    IF ~IsDefined(config) THEN DEFAULT_REDACTION_CONFIG
    ELSE IF ValueOf(config).enabled = Some(FALSE)
    THEN [DEFAULT_REDACTION_CONFIG EXCEPT !.enabled = FALSE]
    ELSE
      LET c == ValueOf(config)
      IN  [sensitivePatterns |->
               OrElse(c.sensitivePatterns, DEFAULT_REDACTION_CONFIG.sensitivePatterns),
           strategy |-> OrElse(c.strategy, DEFAULT_REDACTION_CONFIG.strategy),
           redactionString |->
               OrElse(c.redactionString, DEFAULT_REDACTION_CONFIG.redactionString),
           visibleChars |->
               OrElse(c.visibleChars, DEFAULT_REDACTION_CONFIG.visibleChars),
           enabled |-> OrElse(c.enabled, DEFAULT_REDACTION_CONFIG.enabled)]

\* headersDenyList?.map(normalizeHeaderName) ?? []
normalizedList(list) ==
    IF IsDefined(list)
    THEN [i \in 1..Len(ValueOf(list)) |-> normalizeHeaderName(ValueOf(list)[i])]
    ELSE <<>>

\* The loop with redaction skipped for a header that is on the allow list.
RECURSIVE FilterEntries_allowListSkipsRedaction(_, _, _, _)
FilterEntries_allowListSkipsRedaction(entries, normalizedAllowList, normalizedDenyList, redaction) ==
    IF entries = <<>> THEN <<>>
    ELSE
      LET name == Head(entries).name
          value == Head(entries).value
          normalizedName == normalizeHeaderName(name)
          rest == FilterEntries_allowListSkipsRedaction(Tail(entries),
                      normalizedAllowList, normalizedDenyList, redaction)
          sensitive == redaction.enabled
                         /\ ~listIncludes(normalizedAllowList, normalizedName)
                         /\ isSensitiveHeader(name, redaction.sensitivePatterns)
      IN  IF listIncludes(normalizedDenyList, normalizedName) THEN rest
          ELSE IF Len(normalizedAllowList) > 0
                  /\ ~listIncludes(normalizedAllowList, normalizedName) THEN rest
          ELSE IF sensitive /\ redaction.strategy = "remove" THEN rest
          ELSE IF sensitive
               THEN <<[name |-> name, value |-> redactHeaderValue(value, redaction)]>>
                      \o rest
          ELSE <<[name |-> name, value |-> value]>> \o rest

\* The loop over Object.entries(headers): the entries written to `filtered`,
\* in order.  A header is an entry [name, value].
RECURSIVE FilterEntries(_, _, _, _)
FilterEntries(entries, normalizedAllowList, normalizedDenyList, redaction) ==
    IF entries = <<>> THEN <<>>
    ELSE
      LET name == Head(entries).name
          value == Head(entries).value
          normalizedName == normalizeHeaderName(name)
          rest == FilterEntries(Tail(entries), normalizedAllowList,
                                normalizedDenyList, redaction)
          sensitive == redaction.enabled
                         /\ isSensitiveHeader(name, redaction.sensitivePatterns)
      IN  IF listIncludes(normalizedDenyList, normalizedName) THEN rest
          ELSE IF Len(normalizedAllowList) > 0
                  /\ ~listIncludes(normalizedAllowList, normalizedName) THEN rest
          ELSE IF sensitive /\ redaction.strategy = "remove" THEN rest
          ELSE IF sensitive
               THEN <<[name |-> name, value |-> redactHeaderValue(value, redaction)]>>
                      \o rest
          ELSE <<[name |-> name, value |-> value]>> \o rest

filterHeaders_denyCaseSensitive(headers, headersAllowList, headersDenyList, redactionConfig) ==
    FilterEntries(headers, normalizedList(headersAllowList),
                  OrElse(headersDenyList, <<>>),
                  mergeRedactionConfig(redactionConfig))

filterHeaders(headers, headersAllowList, headersDenyList, redactionConfig) ==
    FilterEntries(headers, normalizedList(headersAllowList),
                  normalizedList(headersDenyList),
                  mergeRedactionConfig(redactionConfig))

----------------------------------------------------------------------------
(* Arguments for filterHeaders *)

MaxHeaders == 2

H_Authorization == <<"A", "u", "t", "h", "o", "r", "i", "z", "a", "t", "i", "o", "n">>
H_authorization == <<"a", "u", "t", "h", "o", "r", "i", "z", "a", "t", "i", "o", "n">>
H_AUTHORIZATION == <<"A", "U", "T", "H", "O", "R", "I", "Z", "A", "T", "I", "O", "N">>
H_ContentType == <<"C", "o", "n", "t", "e", "n", "t", "-", "T", "y", "p", "e">>
H_contenttype == <<"c", "o", "n", "t", "e", "n", "t", "-", "t", "y", "p", "e">>

V_Bearer == <<"B", "e", "a", "r", "e", "r", " ", "t">>
V_json == <<"j", "s", "o", "n">>

HeaderNames == {H_Authorization, H_authorization, H_ContentType}
HeaderValues == {StringValue(V_Bearer), StringValue(<<>>),
                 ArrayValue(<<V_Bearer, V_json>>)}

\* The entries of a headers object: no two with the same key.
HeaderSets ==
    {h \in SeqsUpTo([name : HeaderNames, value : HeaderValues], MaxHeaders) :
        \A i, j \in 1..Len(h) : i # j => h[i].name # h[j].name}

HeadersAllowLists ==
    {Undefined, Some(<<>>), Some(<<H_authorization, H_contenttype>>),
     Some(<<H_ContentType>>)}
HeadersDenyLists ==
    {Undefined, Some(<<>>), Some(<<H_authorization>>), Some(<<H_AUTHORIZATION>>),
     Some(<<H_ContentType, H_Authorization>>)}

PartialRedactionConfig(patterns, strategy, redactionString, visibleChars, enabled) ==
    [sensitivePatterns |-> patterns, strategy |-> strategy,
     redactionString |-> redactionString, visibleChars |-> visibleChars,
     enabled |-> enabled]

HeaderRedactionConfigs ==
    {Undefined}
      \cup {Some(PartialRedactionConfig({}, {}, {}, {}, {FALSE}))}
      \cup {Some(PartialRedactionConfig({}, {s}, {}, {}, {})) : s \in Strategies}
      \cup {Some(PartialRedactionConfig({}, {"partial"}, {REDACTED}, {MaxVisibleChars}, {TRUE}))}
      \cup {Some(PartialRedactionConfig({<<<<"c", "o", "n", "t", "e", "n", "t">>>>}, {}, {}, {}, {}))}

FilterHeadersCalls ==
    [op : {"filterHeaders"}, headers : HeaderSets,
     headersAllowList : HeadersAllowLists,
     headersDenyList : HeadersDenyLists,
     redactionConfig : HeaderRedactionConfigs]

InitFilterHeaders == call \in FilterHeadersCalls /\ ret = {} /\ NoTracker

CallFilterHeaders ==
    /\ call.op = "filterHeaders" /\ ret = {}
    /\ ret' = {filterHeaders(call.headers, call.headersAllowList,
                             call.headersDenyList, call.redactionConfig)}
    /\ UNCHANGED call /\ UNCHANGED trackerVars

SpecFilterHeaders == InitFilterHeaders /\ [][CallFilterHeaders]_vars

----------------------------------------------------------------------------
(* C6: the header deny list *)

\* The lowercased name equals a lowercased entry of the deny list.
OnDenyList(name, denyList) ==
    /\ IsDefined(denyList)
    /\ \E i \in 1..Len(ValueOf(denyList)) :
          toLowerCase(ValueOf(denyList)[i]) = toLowerCase(name)

OnAllowList(name, allowList) ==
    /\ IsDefined(allowList)
    /\ \E i \in 1..Len(ValueOf(allowList)) :
          toLowerCase(ValueOf(allowList)[i]) = toLowerCase(name)

\* C6: no header whose lowercased name equals a lowercased deny-list entry is
\* in the result of filterHeaders, also when the name is on the allow list.
C6_DenyListWins ==
    (call.op = "filterHeaders" /\ ret # {}) =>
        \A i \in 1..Len(ValueOf(ret)) :
            ~OnDenyList(ValueOf(ret)[i].name, call.headersDenyList)

\* deny ["authorization"], allow ["authorization", "content-type"], headers
\* {Authorization, Content-Type}: only Content-Type is left.
C6_Witness ==
    /\ call.op = "filterHeaders" /\ ret # {}
    /\ call.headersDenyList = Some(<<H_authorization>>)
    /\ call.headersAllowList = Some(<<H_authorization, H_contenttype>>)
    /\ Len(call.headers) = 2
    /\ call.headers[1].name = H_Authorization
    /\ call.headers[2].name = H_ContentType
    /\ OnAllowList(H_Authorization, call.headersAllowList)
    /\ ValueOf(ret) = <<call.headers[2]>>

----------------------------------------------------------------------------
(* C11: redaction of the headers that survive the lists *)

\* The header passes the deny list and the allow list.
SurvivesLists(name, allowList, denyList) ==
    /\ ~OnDenyList(name, denyList)
    /\ (IsDefined(allowList) /\ Len(ValueOf(allowList)) > 0)
          => OnAllowList(name, allowList)

\* Redaction is on: no config, or a config that does not say enabled: false.
RedactionEnabled(redactionConfig) ==
    ~IsDefined(redactionConfig) \/ ValueOf(redactionConfig).enabled # Some(FALSE)

\* The values the result holds under a name (a set: none or one).
Emitted(result, name) ==
    {result[i].value : i \in {j \in 1..Len(result) : result[j].name = name}}

\* The header is judged sensitive and redaction is on.
Redacted(header, c) ==
    /\ RedactionEnabled(c.redactionConfig)
    /\ isSensitiveHeader(header.name,
                         mergeRedactionConfig(c.redactionConfig).sensitivePatterns)

\* What the result must hold for one header of the input.
ExpectedEmission(header, c) ==
    LET redaction == mergeRedactionConfig(c.redactionConfig)
    IN  IF ~SurvivesLists(header.name, c.headersAllowList, c.headersDenyList)
        THEN {}
        ELSE IF ~Redacted(header, c) THEN {header.value}
        ELSE IF redaction.strategy = "remove" THEN {}
        ELSE {redactHeaderValue(header.value, redaction)}

\* C11 as stated: a surviving sensitive header is emitted with the strategy's
\* rendering of its value and never with the original value; under REMOVE it
\* is absent; with redaction disabled the values pass through unchanged.
C11_AsStated ==
    (call.op = "filterHeaders" /\ ret # {}) =>
        \A i \in 1..Len(call.headers) :
            LET header == call.headers[i]
                emitted == Emitted(ValueOf(ret), header.name)
            IN  /\ emitted = ExpectedEmission(header, call)
                /\ Redacted(header, call) => header.value \notin emitted

\* C11: every header of the input that survives the lists is emitted once:
\* with redactHeaderValue's rendering of its value when redaction is on and
\* the name is sensitive (also when the name is on the allow list), not at all
\* under REMOVE, and with its own value otherwise; a non-empty string value of
\* a redacted header is emitted as the redaction string under REPLACE, and an
\* empty string value is emitted as it is.
C11_Redaction ==
    (call.op = "filterHeaders" /\ ret # {}) =>
        \A i \in 1..Len(call.headers) :
            LET header == call.headers[i]
                emitted == Emitted(ValueOf(ret), header.name)
                redaction == mergeRedactionConfig(call.redactionConfig)
            IN  /\ emitted = ExpectedEmission(header, call)
                /\ ~RedactionEnabled(call.redactionConfig)
                      => emitted \subseteq {header.value}
                /\ (Redacted(header, call) /\ header.value.tag = "string")
                      => IF header.value.items[1] = <<>>
                         THEN emitted \subseteq {header.value}
                         ELSE redaction.strategy = "replace"
                                => emitted \subseteq
                                     {StringValue(redaction.redactionString)}

\* Authorization: "Bearer t" on the allow list, no redaction config: emitted as
\* "[REDACTED]".
C11_Witness ==
    /\ call.op = "filterHeaders" /\ ret # {}
    /\ call.redactionConfig = Undefined
    /\ call.headersAllowList = Some(<<H_authorization, H_contenttype>>)
    /\ call.headersDenyList = Undefined
    /\ Len(call.headers) = 2
    /\ call.headers[1] = [name |-> H_Authorization, value |-> StringValue(V_Bearer)]
    /\ OnAllowList(H_Authorization, call.headersAllowList)
    /\ ValueOf(ret)[1] = [name |-> H_Authorization,
                          value |-> StringValue(DEFAULT_REDACTION_CONFIG.redactionString)]

----------------------------------------------------------------------------
(* Capture policy resolver: packages/otel/src/instrumentations/undici/undici.ts *)
(* and, with the same text, .../http/http.ts                                   *)

\* The active context: the values startTrace stored under
\* PINGOPS_CAPTURE_REQUEST_BODY and PINGOPS_CAPTURE_RESPONSE_BODY.
ActiveContext(captureRequestBody, captureResponseBody) ==
    [captureRequestBody |-> captureRequestBody,
     captureResponseBody |-> captureResponseBody]

\* The global config of the config store, as set by the span processor.
GlobalConfig(captureRequestBody, captureResponseBody, domainAllowList, maxRequestBodySize, maxResponseBodySize) ==
    [captureRequestBody |-> captureRequestBody,
     captureResponseBody |-> captureResponseBody,
     domainAllowList |-> domainAllowList,
     maxRequestBodySize |-> maxRequestBodySize,
     maxResponseBodySize |-> maxResponseBodySize]

extractDomainFromUrl(url) ==
    IF NewURL(url).ok THEN NewURL(url).hostname ELSE RegexDomain(url)

RECURSIVE FirstRuleFor(_, _)
FirstRuleFor(domain, rules) ==
    IF rules = <<>> THEN Undefined
    ELSE IF \/ domain = Head(rules).domain
            \/ endsWith(domain, <<".">> \o Head(rules).domain)
            \/ domain = slice(Head(rules).domain, 1)
    THEN Some(Head(rules))
    ELSE FirstRuleFor(domain, Tail(rules))

getDomainRule(url, domainAllowList) ==
    IF ~IsDefined(domainAllowList) THEN Undefined
    ELSE FirstRuleFor(extractDomainFromUrl(url), ValueOf(domainAllowList))

\* globalConfig?.domainAllowList
AllowListOf(globalConfig) ==
    IF IsDefined(globalConfig) THEN ValueOf(globalConfig).domainAllowList
    ELSE Undefined

shouldCaptureRequestBody_falsyContext(activeContext, globalConfig, url) ==
    LET contextValue == activeContext.captureRequestBody
        domainRule == getDomainRule(ValueOf(url), AllowListOf(globalConfig))
    IN  IF contextValue = Some(TRUE) THEN TRUE
        ELSE IF IsDefined(url) /\ ValueOf(url) # <<>> /\ IsDefined(domainRule)
                /\ IsDefined(ValueOf(domainRule).captureRequestBody)
        THEN ValueOf(ValueOf(domainRule).captureRequestBody)
        ELSE IF IsDefined(globalConfig)
                /\ IsDefined(ValueOf(globalConfig).captureRequestBody)
        THEN ValueOf(ValueOf(globalConfig).captureRequestBody)
        ELSE FALSE

shouldCaptureRequestBody(activeContext, globalConfig, url) ==
    LET contextValue == activeContext.captureRequestBody
        domainRule == getDomainRule(ValueOf(url), AllowListOf(globalConfig))
    IN  IF IsDefined(contextValue) THEN ValueOf(contextValue)
        ELSE IF IsDefined(url) /\ ValueOf(url) # <<>> /\ IsDefined(domainRule)
                /\ IsDefined(ValueOf(domainRule).captureRequestBody)
        THEN ValueOf(ValueOf(domainRule).captureRequestBody)
        ELSE IF IsDefined(globalConfig)
                /\ IsDefined(ValueOf(globalConfig).captureRequestBody)
        THEN ValueOf(ValueOf(globalConfig).captureRequestBody)
        ELSE FALSE

shouldCaptureResponseBody(activeContext, globalConfig, url) ==
    LET contextValue == activeContext.captureResponseBody
        domainRule == getDomainRule(ValueOf(url), AllowListOf(globalConfig))
    IN  IF IsDefined(contextValue) THEN ValueOf(contextValue)
        ELSE IF IsDefined(url) /\ ValueOf(url) # <<>> /\ IsDefined(domainRule)
                /\ IsDefined(ValueOf(domainRule).captureResponseBody)
        THEN ValueOf(ValueOf(domainRule).captureResponseBody)
        ELSE IF IsDefined(globalConfig)
                /\ IsDefined(ValueOf(globalConfig).captureResponseBody)
        THEN ValueOf(ValueOf(globalConfig).captureResponseBody)
        ELSE FALSE

\* The copies in the node http instrumentation.
httpShouldCaptureRequestBody(activeContext, globalConfig, url) ==
    LET contextValue == activeContext.captureRequestBody
        domainRule == getDomainRule(ValueOf(url), AllowListOf(globalConfig))
    IN  IF IsDefined(contextValue) THEN ValueOf(contextValue)
        ELSE IF IsDefined(url) /\ ValueOf(url) # <<>> /\ IsDefined(domainRule)
                /\ IsDefined(ValueOf(domainRule).captureRequestBody)
        THEN ValueOf(ValueOf(domainRule).captureRequestBody)
        ELSE IF IsDefined(globalConfig)
                /\ IsDefined(ValueOf(globalConfig).captureRequestBody)
        THEN ValueOf(ValueOf(globalConfig).captureRequestBody)
        ELSE FALSE

httpShouldCaptureResponseBody(activeContext, globalConfig, url) ==
    LET contextValue == activeContext.captureResponseBody
        domainRule == getDomainRule(ValueOf(url), AllowListOf(globalConfig))
    IN  IF IsDefined(contextValue) THEN ValueOf(contextValue)
        ELSE IF IsDefined(url) /\ ValueOf(url) # <<>> /\ IsDefined(domainRule)
                /\ IsDefined(ValueOf(domainRule).captureResponseBody)
        THEN ValueOf(ValueOf(domainRule).captureResponseBody)
        ELSE IF IsDefined(globalConfig)
                /\ IsDefined(ValueOf(globalConfig).captureResponseBody)
        THEN ValueOf(ValueOf(globalConfig).captureResponseBody)
        ELSE FALSE

----------------------------------------------------------------------------
(* Arguments for the resolver *)

OptionalBooleans == {Undefined, Some(TRUE), Some(FALSE)}

URL_A == HTTPS \o <<"a", "/", "x">>
URL_B == HTTPS \o <<"b", "/", "x">>

CaptureRule(d, req, resp) == DomainRule(d, Undefined, Undefined, Undefined, req, resp)
CaptureRules ==
    {CaptureRule(<<"a">>, Undefined, Undefined),
     CaptureRule(<<"a">>, Some(TRUE), Some(FALSE)),
     CaptureRule(<<"a">>, Some(FALSE), Some(TRUE)),
     CaptureRule(<<".", "a">>, Some(TRUE), Some(TRUE))}

ResolverContexts ==
    {ActiveContext(q, p) : q \in OptionalBooleans, p \in OptionalBooleans}
ResolverConfigs ==
    {Undefined} \cup
    {Some(GlobalConfig(q, p, l, Undefined, Undefined)) :
        q \in OptionalBooleans, p \in OptionalBooleans,
        l \in OptionalLists(CaptureRules)}
ResolverUrls == {Undefined, Some(URL_A), Some(URL_B)}
ResolverOps == {"undici.shouldCaptureRequestBody", "undici.shouldCaptureResponseBody",
                "http.shouldCaptureRequestBody", "http.shouldCaptureResponseBody"}

ResolverCalls ==
    [op : ResolverOps, activeContext : ResolverContexts,
     globalConfig : ResolverConfigs, url : ResolverUrls]

InitResolver == call \in ResolverCalls /\ ret = {} /\ NoTracker

CallShouldCaptureRequestBody ==
    /\ call.op = "undici.shouldCaptureRequestBody" /\ ret = {}
    /\ ret' = {shouldCaptureRequestBody(call.activeContext, call.globalConfig, call.url)}
    /\ UNCHANGED call /\ UNCHANGED trackerVars

CallShouldCaptureResponseBody ==
    /\ call.op = "undici.shouldCaptureResponseBody" /\ ret = {}
    /\ ret' = {shouldCaptureResponseBody(call.activeContext, call.globalConfig, call.url)}
    /\ UNCHANGED call /\ UNCHANGED trackerVars

CallHttpShouldCaptureRequestBody ==
    /\ call.op = "http.shouldCaptureRequestBody" /\ ret = {}
    /\ ret' = {httpShouldCaptureRequestBody(call.activeContext, call.globalConfig, call.url)}
    /\ UNCHANGED call /\ UNCHANGED trackerVars

CallHttpShouldCaptureResponseBody ==
    /\ call.op = "http.shouldCaptureResponseBody" /\ ret = {}
    /\ ret' = {httpShouldCaptureResponseBody(call.activeContext, call.globalConfig, call.url)}
    /\ UNCHANGED call /\ UNCHANGED trackerVars

NextResolver ==
    \/ CallShouldCaptureRequestBody
    \/ CallShouldCaptureResponseBody
    \/ CallHttpShouldCaptureRequestBody
    \/ CallHttpShouldCaptureResponseBody

SpecResolver == InitResolver /\ [][NextResolver]_vars

----------------------------------------------------------------------------
(* C4: the Capture Policy Resolver *)

IsRequestOp(c) ==
    c.op \in {"undici.shouldCaptureRequestBody", "http.shouldCaptureRequestBody"}

\* The three levels of a resolver call, highest priority first: the context
\* override, the value of the matching domain rule, the global value.
ContextLevel(c) ==
    IF IsRequestOp(c) THEN c.activeContext.captureRequestBody
    ELSE c.activeContext.captureResponseBody

MatchingRule(c) ==
    IF IsDefined(c.url) /\ IsDefined(c.globalConfig)
    THEN getDomainRule(ValueOf(c.url), ValueOf(c.globalConfig).domainAllowList)
    ELSE Undefined

DomainLevel(c) ==
    IF ~IsDefined(MatchingRule(c)) THEN Undefined
    ELSE IF IsRequestOp(c) THEN ValueOf(MatchingRule(c)).captureRequestBody
    ELSE ValueOf(MatchingRule(c)).captureResponseBody

GlobalLevel(c) ==
    IF ~IsDefined(c.globalConfig) THEN Undefined
    ELSE IF IsRequestOp(c) THEN ValueOf(c.globalConfig).captureRequestBody
    ELSE ValueOf(c.globalConfig).captureResponseBody

FirstSetLevel(c) ==
    LET levels == <<ContextLevel(c), DomainLevel(c), GlobalLevel(c)>>
        set == {i \in 1..3 : levels[i] # {}}
    IN  IF set = {} THEN FALSE
        ELSE ValueOf(levels[CHOOSE i \in set : \A j \in set : i <= j])

\* C4: each resolver returns the first value that is set in the order context,
\* matching domain rule, global config, and false when none is set.
C4_Precedence ==
    (call.op \in ResolverOps /\ ret # {}) => ret = {FirstSetLevel(call)}

\* An unset context level does not act as false: the domain rule's true is
\* returned over a global false.
C4_Witness ==
    /\ call.op \in ResolverOps /\ ret = {TRUE}
    /\ ContextLevel(call) = Undefined
    /\ DomainLevel(call) = Some(TRUE)
    /\ GlobalLevel(call) = Some(FALSE)

----------------------------------------------------------------------------
(* Buffers, strings and attribute maps used by the undici instrumentation *)

\* Number.POSITIVE_INFINITY, the value a byte counter takes once its side is
\* truncated; every finite counter is a natural number.
Infinity == -1

Plus(size, n) == IF size = Infinity THEN Infinity ELSE size + n
LessOrEqual(size, max) == size # Infinity /\ size <= max

DIGITS == <<"0", "1", "2", "3", "4", "5", "6", "7", "8", "9">>

\* `${n}` for a non-negative integer.
RECURSIVE NumberToString(_)
NumberToString(n) ==
    IF n < 10 THEN <<DIGITS[n + 1]>>
    ELSE NumberToString(n \div 10) \o <<DIGITS[(n % 10) + 1]>>

\* Buffer.concat(chunks); a chunk is a sequence of bytes.
RECURSIVE BufferConcat(_)
BufferConcat(chunks) ==
    IF chunks = <<>> THEN <<>> ELSE Head(chunks) \o BufferConcat(Tail(chunks))

REPLACEMENT_CHARACTER == "U+FFFD"

\* buffer.toString("utf-8").  The bytes of the model are ASCII letters and
\* 0xFF; 0xFF never occurs in well-formed UTF-8 and decodes to U+FFFD.
utf8Char(b) ==
    IF b \in 97..122 THEN LOWERCASE[b - 96]
    ELSE IF b \in 65..90 THEN UPPERCASE[b - 64]
    ELSE REPLACEMENT_CHARACTER

toStringUtf8(buffer) == [i \in 1..Len(buffer) |-> utf8Char(buffer[i])]

BASE64_ALPHABET == <<"A", "B", "C", "D", "E", "F", "G", "H", "I", "J", "K", "L", "M", "N", "O", "P", "Q", "R", "S", "T", "U", "V", "W", "X", "Y", "Z", "a", "b", "c", "d", "e", "f", "g", "h", "i", "j", "k", "l", "m", "n", "o", "p", "q", "r", "s", "t", "u", "v", "w", "x", "y", "z", "0", "1", "2", "3", "4", "5", "6", "7", "8", "9", "+", "/">>

\* buffer.toString("base64")
RECURSIVE toStringBase64(_)
toStringBase64(buffer) ==
    IF buffer = <<>> THEN <<>>
    ELSE LET n == Len(buffer)
             b1 == buffer[1]
             b2 == IF n >= 2 THEN buffer[2] ELSE 0
             b3 == IF n >= 3 THEN buffer[3] ELSE 0
         IN  <<BASE64_ALPHABET[(b1 \div 4) + 1],
               BASE64_ALPHABET[((b1 % 4) * 16 + (b2 \div 16)) + 1],
               IF n >= 2 THEN BASE64_ALPHABET[((b2 % 16) * 4 + (b3 \div 64)) + 1] ELSE "=",
               IF n >= 3 THEN BASE64_ALPHABET[(b3 % 64) + 1] ELSE "=">>
             \o toStringBase64(SubSeq(buffer, 4, n))

bufferToBodyString(buffer) ==
    IF buffer = <<>> THEN Undefined ELSE Some(toStringUtf8(buffer))

COMPRESSED_ENCODINGS ==
    {<<"g", "z", "i", "p">>, <<"b", "r">>, <<"d", "e", "f", "l", "a", "t", "e">>,
     <<"x", "-", "g", "z", "i", "p">>, <<"x", "-", "d", "e", "f", "l", "a", "t", "e">>}

\* s.split(",")[0]
BeforeFirstComma(s) ==
    LET commas == {i \in 1..Len(s) : s[i] = ","}
    IN  IF commas = {} THEN s
        ELSE SubSeq(s, 1, (CHOOSE i \in commas : \A j \in commas : i <= j) - 1)

\* body-decoder's normalizeHeaderValue, for a string or absent header value.
normalizeHeaderValue(v) ==
    IF ~IsDefined(v) \/ trim(ValueOf(v)) = <<>> THEN Undefined
    ELSE Some(trim(ValueOf(v)))

isCompressedContentEncoding(headerValue) ==
    LET raw == normalizeHeaderValue(headerValue)
    IN  IF ~IsDefined(raw) THEN FALSE
        ELSE toLowerCase(trim(BeforeFirstComma(ValueOf(raw)))) \in COMPRESSED_ENCODINGS

\* An attribute map (Attributes, or a plain object) is a function from the
\* attribute names that are set to their values.
getAttribute(attributes, key) ==
    IF key \in DOMAIN attributes THEN Some(attributes[key]) ELSE Undefined

setAttribute(attributes, key, value) ==
    [k \in (DOMAIN attributes) \cup {key} |->
        IF k = key THEN value ELSE attributes[k]]

deleteAttribute(attributes, key) ==
    [k \in (DOMAIN attributes) \ {key} |-> attributes[k]]

\* Object.assign(target, source)
assign(target, source) ==
    [k \in (DOMAIN target) \cup (DOMAIN source) |->
        IF k \in DOMAIN source THEN source[k] ELSE target[k]]

HTTP_REQUEST_BODY == "http.request.body"
HTTP_RESPONSE_BODY == "http.response.body"
HTTP_RESPONSE_CONTENT_ENCODING == "http.response.content_encoding"

DEFAULT_MAX_REQUEST_BODY_SIZE == 4 * 1024
DEFAULT_MAX_RESPONSE_BODY_SIZE == 4 * 1024

TruncatedRequestBody(maxRequestBodySize) ==
    <<"[", "t", "r", "u", "n", "c", "a", "t", "e", "d", " ", "r", "e", "q", "u", "e", "s", "t", " ", "b", "o", "d", "y", ";", " ", "e", "x", "c", "e", "e", "d", "e", "d", " ", "m", "a", "x", "R", "e", "q", "u", "e", "s", "t", "B", "o", "d", "y", "S", "i", "z", "e", "=">>
    \o NumberToString(maxRequestBodySize) \o <<"]">>

TruncatedResponseBody(maxResponseBodySize, contentType, contentEncoding) ==
    <<"[", "t", "r", "u", "n", "c", "a", "t", "e", "d", " ", "r", "e", "s", "p", "o", "n", "s", "e", " ", "b", "o", "d", "y", ";", " ", "e", "x", "c", "e", "e", "d", "e", "d", " ", "m", "a", "x", "R", "e", "s", "p", "o", "n", "s", "e", "B", "o", "d", "y", "S", "i", "z", "e", "=">>
    \o NumberToString(maxResponseBodySize)
    \o <<";", " ", "c", "o", "n", "t", "e", "n", "t", "-", "t", "y", "p", "e", "=">>
    \o (IF IsDefined(contentType) THEN ValueOf(contentType) ELSE <<"u", "n", "k", "n", "o", "w", "n">>)
    \o <<";", " ", "c", "o", "n", "t", "e", "n", "t", "-", "e", "n", "c", "o", "d", "i", "n", "g", "=">>
    \o (IF IsDefined(contentEncoding) THEN ValueOf(contentEncoding) ELSE <<"i", "d", "e", "n", "t", "i", "t", "y">>)
    \o <<"]">>

----------------------------------------------------------------------------
(* Span processor: packages/otel/src/span-processor.ts and                  *)
(* packages/core/src/utils/span-extractor.ts                                *)

\* The part of PingopsProcessorConfig that the capture pipeline reads.
ProcessorConfig(captureRequestBody, captureResponseBody, domainAllowList, domainDenyList, maxRequestBodySize, maxResponseBodySize) ==
    [captureRequestBody |-> captureRequestBody,
     captureResponseBody |-> captureResponseBody,
     domainAllowList |-> domainAllowList,
     domainDenyList |-> domainDenyList,
     maxRequestBodySize |-> maxRequestBodySize,
     maxResponseBodySize |-> maxResponseBodySize]

\* The config store after the processor's constructor has run.
getGlobalConfig ==
    Some(GlobalConfig(processorConfig.captureRequestBody,
                      processorConfig.captureResponseBody,
                      processorConfig.domainAllowList,
                      processorConfig.maxRequestBodySize,
                      processorConfig.maxResponseBodySize))

\* isSpanEligible without the test of the span kind.
isSpanEligible_anyKind(span) ==
    \/ "http.method" \in DOMAIN span.attributes
    \/ "http.request.method" \in DOMAIN span.attributes
    \/ "http.url" \in DOMAIN span.attributes
    \/ "url.full" \in DOMAIN span.attributes
    \/ "server.address" \in DOMAIN span.attributes

isSpanEligible(span) ==
    /\ span.kind = "CLIENT"
    /\ \/ "http.method" \in DOMAIN span.attributes
       \/ "http.request.method" \in DOMAIN span.attributes
       \/ "http.url" \in DOMAIN span.attributes
       \/ "url.full" \in DOMAIN span.attributes
       \/ "server.address" \in DOMAIN span.attributes

shouldCaptureBody(domainRule, globalValue, bodyType) ==
    LET domainValue ==
            IF ~IsDefined(domainRule) THEN Undefined
            ELSE IF bodyType = "request" THEN ValueOf(domainRule).captureRequestBody
            ELSE ValueOf(domainRule).captureResponseBody
    IN  IF IsDefined(domainValue) THEN ValueOf(domainValue)
        ELSE IF IsDefined(globalValue) THEN ValueOf(globalValue)
        ELSE FALSE

\* attributes["http.url"] || attributes["url.full"]; "" stands for no url.
UrlAttribute(attributes) ==
    IF "http.url" \in DOMAIN attributes /\ attributes["http.url"] # <<>>
    THEN attributes["http.url"]
    ELSE IF "url.full" \in DOMAIN attributes THEN attributes["url.full"]
    ELSE <<>>

\* The attributes of the payload extractSpanPayload builds.  The spans of this
\* model carry no http.request.header.* / http.response.header.* attributes,
\* so the header part of the extractor leaves the attributes as they are.
extractSpanPayload(span, domainAllowList, globalCaptureRequestBody, globalCaptureResponseBody) ==
    LET url == UrlAttribute(span.attributes)
        domainRule == IF url # <<>> THEN getDomainRule(url, domainAllowList) ELSE Undefined
        shouldCaptureReqBody == shouldCaptureBody(domainRule, globalCaptureRequestBody, "request")
        shouldCaptureRespBody == shouldCaptureBody(domainRule, globalCaptureResponseBody, "response")
        withoutRequestBody ==
            IF shouldCaptureReqBody THEN span.attributes
            ELSE deleteAttribute(span.attributes, HTTP_REQUEST_BODY)
    IN  IF shouldCaptureRespBody THEN withoutRequestBody
        ELSE deleteAttribute(withoutRequestBody, HTTP_RESPONSE_BODY)

\* The proxy: the span with its attributes replaced by the payload's.
createFilteredSpan(span, domainAllowList, globalCaptureRequestBody, globalCaptureResponseBody) ==
    [span EXCEPT !.attributes =
        extractSpanPayload(span, domainAllowList, globalCaptureRequestBody,
                           globalCaptureResponseBody)]

\* PingopsSpanProcessor.onEnd: the spans passed on to the underlying
\* processor for this ended span, none or one.
onEnd(span) ==
    LET address == getAttribute(span.attributes, "server.address")
        url == IF UrlAttribute(span.attributes) # <<>> THEN UrlAttribute(span.attributes)
               ELSE IF IsDefined(address) THEN HTTPS \o ValueOf(address)
               ELSE <<>>
    IN  IF ~isSpanEligible(span) THEN <<>>
        ELSE IF url # <<>> /\ ~shouldCaptureSpan(url, processorConfig.domainAllowList,
                                                processorConfig.domainDenyList)
        THEN <<>>
        ELSE <<createFilteredSpan(span, processorConfig.domainAllowList,
                                  processorConfig.captureRequestBody,
                                  processorConfig.captureResponseBody)>>

----------------------------------------------------------------------------
(* Undici instrumentation: .../instrumentations/undici/pingops-undici.ts    *)

\* createUndiciInstrumentation(): the instrumentation's config.  The hook the
\* factory installs ignores nothing; request.ignoredByHook is the answer of
\* whatever hook is installed.
createUndiciInstrumentation(globalConfig) ==
    [enabled |-> Some(TRUE),
     maxRequestBodySize |->
        IF IsDefined(globalConfig) THEN ValueOf(globalConfig).maxRequestBodySize
        ELSE Undefined,
     maxResponseBodySize |->
        IF IsDefined(globalConfig) THEN ValueOf(globalConfig).maxResponseBodySize
        ELSE Undefined]

getConfig == createUndiciInstrumentation(getGlobalConfig)

maxRequestBodySize ==
    IF IsDefined(getConfig.maxRequestBodySize) THEN ValueOf(getConfig.maxRequestBodySize)
    ELSE DEFAULT_MAX_REQUEST_BODY_SIZE

maxResponseBodySize ==
    IF IsDefined(getConfig.maxResponseBodySize) THEN ValueOf(getConfig.maxResponseBodySize)
    ELSE DEFAULT_MAX_RESPONSE_BODY_SIZE

shouldIgnoreReq(request) ==
    \/ getConfig.enabled = Some(FALSE)
    \/ request.method = "CONNECT"
    \/ request.ignoredByHook

\* new URL(request.path, request.origin) and its toString().
RequestUrl(request) == NewURL(request.origin \o request.path)
UrlFull(request) ==
    SubSeq(request.origin, 1, SchemeLen(request.origin))
    \o RequestUrl(request).hostname \o RequestUrl(request).pathname

\* tracer.startSpan(name, {kind: CLIENT, attributes}).  spanId stands for the
\* span's identity; endCalls counts the calls of span.end().
startSpan(spanId, attributes) ==
    [spanId |-> spanId, kind |-> "CLIENT", attributes |-> attributes,
     status |-> [code |-> "UNSET", message |-> Undefined],
     exceptions |-> 0, endCalls |-> 0]

end(span) == [span EXCEPT !.endCalls = @ + 1]

\* The runs of the model deliver at most call.maxEvents messages in all
\* (MaxEvents in the runs of Spec); a small
\* body size ceiling is SmallBodySize bytes.
MaxEvents == 4
SmallBodySize == 2

RECURSIVE SumOfEvents(_)
SumOfEvents(S) ==
    IF S = {} THEN 0
    ELSE LET r == CHOOSE x \in S : TRUE
         IN  observed[r].events + SumOfEvents(S \ {r})

\* The request-created message is the first one published for a request
\* object, and it is published once, by the request's constructor.
CanDeliver(r) == observed[r].events > 0 /\ SumOfEvents(DOMAIN observed) < call.maxEvents

Unchanged == UNCHANGED <<call, ret, processorConfig, requests, logger, httpHook, sdk, undici>>

OnRequestCreated(r) ==
    /\ observed[r].events = 0 /\ SumOfEvents(DOMAIN observed) < call.maxEvents
    /\ LET request == requests[r]
           attributes ==
                ("http.request.method" :> request.method)
             @@ ("url.full" :> UrlFull(request))
             @@ ("url.path" :> RequestUrl(request).pathname)
             @@ ("server.address" :> RequestUrl(request).hostname)
       IN  IF shouldIgnoreReq(request) \/ ~RequestUrl(request).ok
           THEN UNCHANGED <<recordFromReq, spans>>
           ELSE /\ spans' = [spans EXCEPT ![r] = Some(startSpan(r, attributes))]
                /\ recordFromReq' = [recordFromReq EXCEPT ![r] =
                        Some([attributes |-> attributes,
                              requestBodyChunks |-> <<>>,
                              responseBodyChunks |-> <<>>,
                              requestBodySize |-> 0,
                              responseBodySize |-> 0,
                              url |-> Some(UrlFull(request))])]
    /\ observed' = [observed EXCEPT ![r].events = 1]
    /\ UNCHANGED exported /\ Unchanged

\* Of the span attributes set here the span of the model keeps the peer's
\* address and port; the http.request.header.* attributes are left out.
OnRequestHeaders(r, socket) ==
    /\ CanDeliver(r)
    /\ IF ~IsDefined(recordFromReq[r]) THEN UNCHANGED spans
       ELSE spans' = [spans EXCEPT ![r] =
                Some([ValueOf(@) EXCEPT !.attributes =
                    assign(@, ("network.peer.address" :> socket.remoteAddress)
                              @@ ("network.peer.port" :> socket.remotePort))])]
    /\ observed' = [observed EXCEPT ![r].events = @ + 1]
    /\ UNCHANGED <<recordFromReq, exported>> /\ Unchanged

\* `http.response.header.${name.toLowerCase()}` for the header names of the
\* model.
ResponseHeaderAttribute(name) ==
    IF toLowerCase(name) = <<"c", "o", "n", "t", "e", "n", "t", "-", "e", "n", "c", "o", "d", "i", "n", "g">>
    THEN "http.response.header.content-encoding"
    ELSE IF toLowerCase(name) = <<"c", "o", "n", "t", "e", "n", "t", "-", "t", "y", "p", "e">>
    THEN "http.response.header.content-type"
    ELSE "http.response.header.other"

RECURSIVE ResponseHeaderAttributes(_)
ResponseHeaderAttributes(headers) ==
    IF headers = <<>> THEN <<>>
    ELSE assign((ResponseHeaderAttribute(headers[1]) :> headers[2]),
                ResponseHeaderAttributes(SubSeq(headers, 3, Len(headers))))

\* Of the span attributes set here the span of the model keeps the status
\* code; the header attributes are kept on the record, which is where the
\* body handling reads them.
OnResponseHeaders(r, response) ==
    /\ CanDeliver(r)
    /\ IF ~IsDefined(recordFromReq[r]) THEN UNCHANGED <<recordFromReq, spans>>
       ELSE LET spanAttributes ==
                    assign(("http.response.status_code" :> response.statusCode),
                           ResponseHeaderAttributes(response.headers))
            IN  /\ spans' = [spans EXCEPT ![r] =
                        Some([ValueOf(@) EXCEPT
                            !.attributes = setAttribute(@, "http.response.status_code",
                                                        response.statusCode),
                            !.status = [code |-> IF response.statusCode >= 400
                                                 THEN "ERROR" ELSE "UNSET",
                                        message |-> Undefined]])]
                /\ recordFromReq' = [recordFromReq EXCEPT ![r] =
                        Some([ValueOf(@) EXCEPT !.attributes = assign(@, spanAttributes)])]
    /\ observed' = [observed EXCEPT ![r].events = @ + 1]
    /\ UNCHANGED exported /\ Unchanged

\* The span after onDone has set the response body attributes.
WithResponseBody(span, record, activeContext) ==
    LET contentEncoding == getAttribute(record.attributes, "http.response.header.content-encoding")
        contentType == getAttribute(record.attributes, "http.response.header.content-type")
        responseBodyBuffer == BufferConcat(record.responseBodyChunks)
        bodyStr == bufferToBodyString(responseBodyBuffer)
    IN  IF ~shouldCaptureResponseBody(activeContext, getGlobalConfig, record.url)
        THEN span
        ELSE IF record.responseBodySize = Infinity
        THEN [span EXCEPT !.attributes = setAttribute(@, HTTP_RESPONSE_BODY,
                TruncatedResponseBody(maxResponseBodySize, contentType, contentEncoding))]
        ELSE IF Len(record.responseBodyChunks) = 0 THEN span
        ELSE IF isCompressedContentEncoding(contentEncoding)
        THEN [span EXCEPT !.attributes =
                assign(@, (HTTP_RESPONSE_BODY :> toStringBase64(responseBodyBuffer))
                          @@ (HTTP_RESPONSE_CONTENT_ENCODING :> ValueOf(contentEncoding)))]
        ELSE IF IsDefined(bodyStr)
        THEN [span EXCEPT !.attributes = setAttribute(@, HTTP_RESPONSE_BODY, ValueOf(bodyStr))]
        ELSE span

OnDone_keepRecord(r, activeContext) ==
    /\ CanDeliver(r)
    /\ IF ~IsDefined(recordFromReq[r]) THEN UNCHANGED <<recordFromReq, spans, exported>>
       ELSE LET ended == end(WithResponseBody(ValueOf(spans[r]), ValueOf(recordFromReq[r]),
                                              activeContext))
            IN  /\ spans' = [spans EXCEPT ![r] = Some(ended)]
                /\ exported' = exported \o onEnd(ended)
                /\ UNCHANGED recordFromReq
    /\ observed' = [observed EXCEPT ![r].events = @ + 1,
                                    ![r].contexts = @ \cup {activeContext},
                                    ![r].terminals = Append(@, "trailers")]
    /\ Unchanged

OnDone(r, activeContext) ==
    /\ CanDeliver(r)
    /\ IF ~IsDefined(recordFromReq[r]) THEN UNCHANGED <<recordFromReq, spans, exported>>
       ELSE LET ended == end(WithResponseBody(ValueOf(spans[r]), ValueOf(recordFromReq[r]),
                                              activeContext))
            IN  /\ spans' = [spans EXCEPT ![r] = Some(ended)]
                /\ exported' = exported \o onEnd(ended)
                /\ recordFromReq' = [recordFromReq EXCEPT ![r] = Undefined]
    /\ observed' = [observed EXCEPT ![r].events = @ + 1,
                                    ![r].contexts = @ \cup {activeContext},
                                    ![r].terminals = Append(@, "trailers")]
    /\ Unchanged

\* onError attaching the buffered request body whatever the capture decision.
WithError_ignoresPolicy(span, record, error, activeContext) ==
    LET requestBody == toStringUtf8(BufferConcat(record.requestBodyChunks))
        withBody ==
            IF /\ Len(record.requestBodyChunks) > 0
               /\ record.requestBodySize # Infinity
               /\ requestBody # <<>>
            THEN [span EXCEPT !.attributes = setAttribute(@, HTTP_REQUEST_BODY, requestBody)]
            ELSE span
    IN  [withBody EXCEPT !.exceptions = @ + 1,
                         !.status = [code |-> "ERROR", message |-> Some(error.message)]]

\* The span after onError has set the request body attribute, recorded the
\* exception and set the status.
WithError(span, record, error, activeContext) ==
    LET requestBody == toStringUtf8(BufferConcat(record.requestBodyChunks))
        withBody ==
            IF /\ shouldCaptureRequestBody(activeContext, getGlobalConfig, record.url)
               /\ Len(record.requestBodyChunks) > 0
               /\ record.requestBodySize # Infinity
               /\ requestBody # <<>>
            THEN [span EXCEPT !.attributes = setAttribute(@, HTTP_REQUEST_BODY, requestBody)]
            ELSE span
    IN  [withBody EXCEPT !.exceptions = @ + 1,
                         !.status = [code |-> "ERROR", message |-> Some(error.message)]]

OnError_keepRecord(r, error, activeContext) ==
    /\ CanDeliver(r)
    /\ IF ~IsDefined(recordFromReq[r]) THEN UNCHANGED <<recordFromReq, spans, exported>>
       ELSE LET ended == end(WithError(ValueOf(spans[r]), ValueOf(recordFromReq[r]),
                                       error, activeContext))
            IN  /\ spans' = [spans EXCEPT ![r] = Some(ended)]
                /\ exported' = exported \o onEnd(ended)
                /\ UNCHANGED recordFromReq
    /\ observed' = [observed EXCEPT ![r].events = @ + 1,
                                    ![r].contexts = @ \cup {activeContext},
                                    ![r].terminals = Append(@, "error")]
    /\ Unchanged

OnError(r, error, activeContext) ==
    /\ CanDeliver(r)
    /\ IF ~IsDefined(recordFromReq[r]) THEN UNCHANGED <<recordFromReq, spans, exported>>
       ELSE LET ended == end(WithError(ValueOf(spans[r]), ValueOf(recordFromReq[r]),
                                       error, activeContext))
            IN  /\ spans' = [spans EXCEPT ![r] = Some(ended)]
                /\ exported' = exported \o onEnd(ended)
                /\ recordFromReq' = [recordFromReq EXCEPT ![r] = Undefined]
    /\ observed' = [observed EXCEPT ![r].events = @ + 1,
                                    ![r].contexts = @ \cup {activeContext},
                                    ![r].terminals = Append(@, "error")]
    /\ Unchanged

\* What the history records of a request body chunk: its bytes, and that the
\* request side is reopened when the chunk follows a body-sent message.
ObservedChunkSent(r, chunk, activeContext) ==
    [observed EXCEPT ![r].events = @ + 1,
                     ![r].contexts = @ \cup {activeContext},
                     ![r].sent = @ \o chunk,
                     ![r].requestSide = IF @ = "streaming" THEN @ ELSE "reopened"]

OnBodyChunkSent_dropChunk(r, chunk, activeContext) ==
    /\ CanDeliver(r)
    /\ IF \/ ~IsDefined(recordFromReq[r])
          \/ ~shouldCaptureRequestBody(activeContext, getGlobalConfig,
                                       ValueOf(recordFromReq[r]).url)
       THEN UNCHANGED recordFromReq
       ELSE LET record == ValueOf(recordFromReq[r])
            IN  recordFromReq' = [recordFromReq EXCEPT ![r] =
                    IF LessOrEqual(Plus(record.requestBodySize, Len(chunk)), maxRequestBodySize)
                    THEN Some([record EXCEPT
                            !.requestBodyChunks = Append(@, chunk),
                            !.requestBodySize = Plus(@, Len(chunk))])
                    ELSE Some(record)]
    /\ observed' = ObservedChunkSent(r, chunk, activeContext)
    /\ UNCHANGED <<spans, exported>> /\ Unchanged

OnBodyChunkSent(r, chunk, activeContext) ==
    /\ CanDeliver(r)
    /\ IF \/ ~IsDefined(recordFromReq[r])
          \/ ~shouldCaptureRequestBody(activeContext, getGlobalConfig,
                                       ValueOf(recordFromReq[r]).url)
       THEN UNCHANGED recordFromReq
       ELSE LET record == ValueOf(recordFromReq[r])
            IN  recordFromReq' = [recordFromReq EXCEPT ![r] =
                    IF LessOrEqual(Plus(record.requestBodySize, Len(chunk)), maxRequestBodySize)
                    THEN Some([record EXCEPT
                            !.requestBodyChunks = Append(@, chunk),
                            !.requestBodySize = Plus(@, Len(chunk))])
                    ELSE Some([record EXCEPT
                            !.requestBodySize = Infinity,
                            !.requestBodyChunks = <<>>])]
    /\ observed' = ObservedChunkSent(r, chunk, activeContext)
    /\ UNCHANGED <<spans, exported>> /\ Unchanged

OnBodySent(r, activeContext) ==
    /\ CanDeliver(r)
    /\ IF ~IsDefined(recordFromReq[r]) THEN UNCHANGED <<recordFromReq, spans>>
       ELSE LET record == ValueOf(recordFromReq[r])
                requestBody == toStringUtf8(BufferConcat(record.requestBodyChunks))
            IN  /\ recordFromReq' = [recordFromReq EXCEPT ![r] =
                        Some([record EXCEPT !.requestBodyChunks = <<>>])]
                /\ IF ~shouldCaptureRequestBody(activeContext, getGlobalConfig, record.url)
                   THEN UNCHANGED spans
                   ELSE IF record.requestBodySize = Infinity
                   THEN spans' = [spans EXCEPT ![r] =
                            Some([ValueOf(@) EXCEPT !.attributes =
                                setAttribute(@, HTTP_REQUEST_BODY,
                                             TruncatedRequestBody(maxRequestBodySize))])]
                   ELSE IF Len(record.requestBodyChunks) > 0 /\ requestBody # <<>>
                   THEN spans' = [spans EXCEPT ![r] =
                            Some([ValueOf(@) EXCEPT !.attributes =
                                setAttribute(@, HTTP_REQUEST_BODY, requestBody)])]
                   ELSE UNCHANGED spans
    /\ observed' = [observed EXCEPT ![r].events = @ + 1,
                                    ![r].contexts = @ \cup {activeContext},
                                    ![r].requestSide = IF @ = "streaming" THEN "finalized"
                                                       ELSE "reopened"]
    /\ UNCHANGED exported /\ Unchanged

\* The chunk handler marking the side as exceeded without dropping what it has.
OnBodyChunkReceived_keepChunks(r, chunk, activeContext) ==
    /\ CanDeliver(r)
    /\ IF \/ ~IsDefined(recordFromReq[r])
          \/ ~shouldCaptureResponseBody(activeContext, getGlobalConfig,
                                        ValueOf(recordFromReq[r]).url)
       THEN UNCHANGED recordFromReq
       ELSE LET record == ValueOf(recordFromReq[r])
            IN  recordFromReq' = [recordFromReq EXCEPT ![r] =
                    IF LessOrEqual(Plus(record.responseBodySize, Len(chunk)), maxResponseBodySize)
                    THEN Some([record EXCEPT
                            !.responseBodyChunks = Append(@, chunk),
                            !.responseBodySize = Plus(@, Len(chunk))])
                    ELSE Some([record EXCEPT !.responseBodySize = Infinity])]
    /\ observed' = [observed EXCEPT ![r].events = @ + 1,
                                    ![r].contexts = @ \cup {activeContext},
                                    ![r].received = @ \o chunk]
    /\ UNCHANGED <<spans, exported>> /\ Unchanged

OnBodyChunkReceived(r, chunk, activeContext) ==
    /\ CanDeliver(r)
    /\ IF \/ ~IsDefined(recordFromReq[r])
          \/ ~shouldCaptureResponseBody(activeContext, getGlobalConfig,
                                        ValueOf(recordFromReq[r]).url)
       THEN UNCHANGED recordFromReq
       ELSE LET record == ValueOf(recordFromReq[r])
            IN  recordFromReq' = [recordFromReq EXCEPT ![r] =
                    IF LessOrEqual(Plus(record.responseBodySize, Len(chunk)), maxResponseBodySize)
                    THEN Some([record EXCEPT
                            !.responseBodyChunks = Append(@, chunk),
                            !.responseBodySize = Plus(@, Len(chunk))])
                    ELSE Some([record EXCEPT
                            !.responseBodySize = Infinity,
                            !.responseBodyChunks = <<>>])]
    /\ observed' = [observed EXCEPT ![r].events = @ + 1,
                                    ![r].contexts = @ \cup {activeContext},
                                    ![r].received = @ \o chunk]
    /\ UNCHANGED <<spans, exported>> /\ Unchanged

----------------------------------------------------------------------------
(* The runs of the tracker *)

Reqs == {"r1", "r2"}

ORIGIN_A == HTTPS \o <<"a">>
PATH_X == <<"/", "x">>

UndiciRequest(method, origin, path, ignoredByHook) ==
    [method |-> method, origin |-> origin, path |-> path, ignoredByHook |-> ignoredByHook]

\* A plain request, a CONNECT, one the hook ignores, one without a usable url.
PlainRequest == UndiciRequest("GET", ORIGIN_A, PATH_X, FALSE)
Requests ==
    {PlainRequest,
     UndiciRequest("CONNECT", ORIGIN_A, PATH_X, FALSE),
     UndiciRequest("GET", ORIGIN_A, PATH_X, TRUE),
     UndiciRequest("GET", <<>>, PATH_X, FALSE)}

\* The requests of a run: r1 is a plain request, r2 is of any kind.
RequestsOfRun == {[r \in Reqs |-> IF r = "r1" THEN PlainRequest ELSE q] : q \in Requests}

ProcessorConfigs ==
    {ProcessorConfig(Undefined, Undefined, Undefined, Undefined, Undefined, Undefined),
     ProcessorConfig(Some(TRUE), Some(TRUE), Undefined, Undefined,
                     Some(SmallBodySize), Some(SmallBodySize)),
     ProcessorConfig(Some(FALSE), Some(TRUE),
                     Some(<<CaptureRule(<<"a">>, Some(TRUE), Some(FALSE))>>), Undefined,
                     Some(SmallBodySize), Some(SmallBodySize)),
     ProcessorConfig(Some(TRUE), Some(TRUE), Undefined, Some(<<PathRule(<<"a">>, Undefined)>>),
                     Some(SmallBodySize), Some(SmallBodySize))}

\* The contexts an event can be delivered in: outside any startTrace, or
\* inside one that overrides the two flags.
ActiveContexts ==
    {ActiveContext(Undefined, Undefined),
     ActiveContext(Some(TRUE), Some(FALSE)),
     ActiveContext(Some(FALSE), Some(TRUE))}

Chunks == {<<97>>, <<98, 255>>}

Sockets == {[remoteAddress |-> "10.0.0.1", remotePort |-> 443]}

Responses ==
    {[statusCode |-> 500,
      headers |-> <<<<"C", "o", "n", "t", "e", "n", "t", "-", "E", "n", "c", "o", "d", "i", "n", "g">>, <<"G", "Z", "I", "P", ",", " ", "b", "r">>,
                    <<"c", "o", "n", "t", "e", "n", "t", "-", "t", "y", "p", "e">>, <<"t", "e", "x", "t">>>>]}

Errors == {[message |-> "aborted"]}

Init ==
    /\ call = [op |-> "tracker", maxEvents |-> MaxEvents] /\ ret = {}
    /\ processorConfig \in ProcessorConfigs
    /\ requests \in RequestsOfRun
    /\ recordFromReq = [r \in Reqs |-> Undefined]
    /\ spans = [r \in Reqs |-> Undefined]
    /\ exported = <<>>
    /\ logger = <<>> /\ httpHook = <<>> /\ sdk = <<>> /\ undici = <<>>
    /\ observed = [r \in Reqs |->
            [events |-> 0, contexts |-> {}, terminals |-> <<>>,
             sent |-> <<>>, received |-> <<>>, requestSide |-> "streaming"]]

Next ==
    \E r \in Reqs :
        \/ OnRequestCreated(r)
        \/ \E socket \in Sockets : OnRequestHeaders(r, socket)
        \/ \E response \in Responses : OnResponseHeaders(r, response)
        \/ \E chunk \in Chunks, activeContext \in ActiveContexts :
                OnBodyChunkSent(r, chunk, activeContext)
        \/ \E activeContext \in ActiveContexts : OnBodySent(r, activeContext)
        \/ \E chunk \in Chunks, activeContext \in ActiveContexts :
                OnBodyChunkReceived(r, chunk, activeContext)
        \/ \E activeContext \in ActiveContexts : OnDone(r, activeContext)
        \/ \E error \in Errors, activeContext \in ActiveContexts :
                OnError(r, error, activeContext)

Spec == Init /\ [][Next]_vars

----------------------------------------------------------------------------
(* The tracker's claims *)

\* A tracked request is one for which request-created started a span.
Tracked(r) == IsDefined(spans[r])
SpanOf(r) == ValueOf(spans[r])

\* A message for r is delivered by this step / a terminal one is.
Delivered(r) == observed'[r].events = observed[r].events + 1
TerminalDelivered(r) == Len(observed'[r].terminals) = Len(observed[r].terminals) + 1

TrackerUntouched == UNCHANGED <<recordFromReq, spans, exported>>

\* C1 (state part): the span of a tracked request is ended at most once, and
\* it is ended once a trailers or error message has been delivered.
C1_EndedAtMostOnce ==
    \A r \in Reqs :
        Tracked(r) =>
            /\ SpanOf(r).endCalls <= 1
            /\ (observed[r].terminals # <<>> => SpanOf(r).endCalls = 1)

\* C1 (step part): a terminal message that follows another terminal message of
\* the same request changes no record, no span and nothing that is exported.
C1_SecondTerminalIsNoOp ==
    \A r \in Reqs :
        (TerminalDelivered(r) /\ observed[r].terminals # <<>>) => TrackerUntouched

\* C1: for every tracked request and every sequence of its messages the span
\* is ended at most once, exactly once as soon as a trailers or error message
\* was delivered, and a second terminal message changes nothing.
C1_SpanEndedOnce == [](C1_EndedAtMostOnce) /\ [][C1_SecondTerminalIsNoOp]_vars

\* A tracked request has received two terminal messages and its span was ended
\* once.
C1_Witness ==
    \E r \in Reqs :
        /\ Tracked(r) /\ Len(observed[r].terminals) >= 2
        /\ SpanOf(r).endCalls = 1

\* C2 (state part): after a trailers or error message the map has no entry for
\* the request.
C2_NoEntryAfterTerminal ==
    \A r \in Reqs : observed[r].terminals # <<>> => ~IsDefined(recordFromReq[r])

\* C2 (step part): an entry appears only with request-created, the first
\* message of the request; a later message for a request without an entry
\* changes no record, no span and nothing that is exported.
C2_StepsOfTheMap ==
    \A r \in Reqs :
        /\ (~IsDefined(recordFromReq[r]) /\ IsDefined(recordFromReq'[r]))
                => (observed[r].events = 0 /\ Delivered(r))
        /\ (Delivered(r) /\ observed[r].events > 0 /\ ~IsDefined(recordFromReq[r]))
                => TrackerUntouched

\* C2: the correlation map gets an entry only from request-created, holds none
\* after the first trailers or error message, and every message for a request
\* without an entry is a no-op.
C2_CorrelationMap == [](C2_NoEntryAfterTerminal) /\ [][C2_StepsOfTheMap]_vars

\* Messages were delivered for a request that never got an entry and for a
\* request that was finalised, and a tracked request was finalised by error.
C2_Witness ==
    /\ \E r \in Reqs : ~Tracked(r) /\ observed[r].events >= 2
    /\ \E r \in Reqs :
        /\ Tracked(r) /\ observed[r].terminals # <<>>
        /\ observed[r].terminals[1] = "error"
        /\ ~IsDefined(recordFromReq[r])

\* The capture decision of a side at the url of a tracked request, in a context.
DecisionAt(r, side, activeContext) ==
    IF side = "request"
    THEN shouldCaptureRequestBody(activeContext, getGlobalConfig, Some(UrlFull(requests[r])))
    ELSE shouldCaptureResponseBody(activeContext, getGlobalConfig, Some(UrlFull(requests[r])))

\* The decision of the side was true at every message the history holds.
AlwaysCaptured(r, side, history) ==
    \A activeContext \in history[r].contexts : DecisionAt(r, side, activeContext)

\* The texts built from the strict, non-empty prefixes of a body.
StrictPrefixTexts(body) ==
    UNION {{toStringUtf8(SubSeq(body, 1, k)), toStringBase64(SubSeq(body, 1, k))} :
            k \in 1..(Len(body) - 1)}

\* C5 (request side): the attribute the first body-sent message leaves on the
\* span, when the decision was true throughout.
C5_RequestSideFinalized(r) ==
    (/\ Delivered(r)
     /\ observed[r].requestSide = "streaming" /\ observed'[r].requestSide = "finalized"
     /\ IsDefined(recordFromReq[r])
     /\ AlwaysCaptured(r, "request", observed'))
    => LET body == observed'[r].sent
           attribute == getAttribute(ValueOf(spans'[r]).attributes, HTTP_REQUEST_BODY)
       IN  /\ Len(body) > maxRequestBodySize
                => attribute = Some(TruncatedRequestBody(maxRequestBodySize))
           /\ (Len(body) >= 1 /\ Len(body) <= maxRequestBodySize)
                => attribute = Some(toStringUtf8(body))

\* C5 (response side): the attribute the first trailers message leaves on the
\* span, when the decision was true throughout.
C5_ResponseSideFinalized(r) ==
    (/\ TerminalDelivered(r)
     /\ observed'[r].terminals = <<"trailers">>
     /\ IsDefined(recordFromReq[r])
     /\ AlwaysCaptured(r, "response", observed'))
    => LET body == observed'[r].received
           headers == ValueOf(recordFromReq[r]).attributes
           contentEncoding == getAttribute(headers, "http.response.header.content-encoding")
           contentType == getAttribute(headers, "http.response.header.content-type")
           attribute == getAttribute(ValueOf(spans'[r]).attributes, HTTP_RESPONSE_BODY)
       IN  /\ Len(body) > maxResponseBodySize
                => attribute = Some(TruncatedResponseBody(maxResponseBodySize,
                                                          contentType, contentEncoding))
           /\ (Len(body) >= 1 /\ Len(body) <= maxResponseBodySize)
                => attribute = Some(IF isCompressedContentEncoding(contentEncoding)
                                    THEN toStringBase64(body) ELSE toStringUtf8(body))

\* C5 (export): a span handed to the exporter carries no strict prefix of a
\* body whose side was captured throughout.
C5_NoPrefixExported ==
    Len(exported') > Len(exported) =>
        LET span == exported'[Len(exported')]
            r == span.spanId
        IN  /\ (AlwaysCaptured(r, "request", observed') /\ observed'[r].requestSide # "reopened")
                => getAttribute(span.attributes, HTTP_REQUEST_BODY)
                        \cap StrictPrefixTexts(observed'[r].sent) = {}
            /\ AlwaysCaptured(r, "response", observed')
                => getAttribute(span.attributes, HTTP_RESPONSE_BODY)
                        \cap StrictPrefixTexts(observed'[r].received) = {}

\* C5: with the capture decision of a side true at every message, the body
\* attribute set at finalization is the truncation diagnostic naming the
\* ceiling when the chunks sum to more than the ceiling, is built from all the
\* chunks in arrival order when they sum to between 1 byte and the ceiling, and
\* no strict prefix of the body is exported.
C5_BodyBuffer ==
    [][/\ \A r \in Reqs : C5_RequestSideFinalized(r) /\ C5_ResponseSideFinalized(r)
       /\ C5_NoPrefixExported]_vars

\* A request body over the ceiling, captured throughout, was finalised by
\* body-sent with the diagnostic.
C5_Witness ==
    \E r \in Reqs :
        /\ Tracked(r) /\ observed[r].requestSide = "finalized"
        /\ AlwaysCaptured(r, "request", observed)
        /\ Len(observed[r].sent) > maxRequestBodySize
        /\ getAttribute(SpanOf(r).attributes, HTTP_REQUEST_BODY)
                = Some(TruncatedRequestBody(maxRequestBodySize))

\* The override startTrace put in a context for a side.
OverrideOf(activeContext, side) ==
    IF side = "request" THEN activeContext.captureRequestBody
    ELSE activeContext.captureResponseBody

\* The overrides of the side in the contexts the request's messages came in.
OverridesSeen(r, side) ==
    {OverrideOf(activeContext, side) : activeContext \in observed[r].contexts}

BodyAttribute(side) == IF side = "request" THEN HTTP_REQUEST_BODY ELSE HTTP_RESPONSE_BODY

\* C3: for each side, when every message of a call came in a startTrace
\* context whose override is true, the span handed to the exporter contains the
\* body the instrumentation captured, whatever the domain rule and the global
\* default are; when the override is false it contains no body.
C3_OverrideDecidesExport ==
    \A i \in 1..Len(exported) : \A side \in {"request", "response"} :
        LET span == exported[i]
            r == span.spanId
            captured == getAttribute(SpanOf(r).attributes, BodyAttribute(side))
            handedOn == getAttribute(span.attributes, BodyAttribute(side))
        IN  /\ OverridesSeen(r, side) = {Some(TRUE)} => handedOn = captured
            /\ OverridesSeen(r, side) = {Some(FALSE)} => handedOn = Undefined

----------------------------------------------------------------------------
(* C12: span eligibility: packages/core/src/filtering/span-filter.ts *)

SpanKinds == {"INTERNAL", "SERVER", "CLIENT", "PRODUCER", "CONSUMER"}

\* The attribute keys isSpanEligible looks for, and three it does not.
HttpAttributeKeys ==
    {"http.method", "http.request.method", "http.url", "url.full", "server.address"}
OtherAttributeKeys == {"gen_ai.system", "gen_ai.operation.name", "http.route"}

EligibilitySpans ==
    {[kind |-> k, attributes |-> [a \in keys |-> <<"v">>]] :
        k \in SpanKinds, keys \in SUBSET (HttpAttributeKeys \cup OtherAttributeKeys)}

InitIsSpanEligible ==
    /\ call \in [op : {"isSpanEligible"}, span : EligibilitySpans]
    /\ ret = {} /\ NoTracker

CallIsSpanEligible ==
    /\ call.op = "isSpanEligible" /\ ret = {}
    /\ ret' = {isSpanEligible(call.span)}
    /\ UNCHANGED call /\ UNCHANGED trackerVars

SpecIsSpanEligible == InitIsSpanEligible /\ [][CallIsSpanEligible]_vars

----------------------------------------------------------------------------
(* PingopsSpanProcessor as a span processor: packages/otel/src/span-processor.ts *)
(* The underlying processor (a BatchSpanProcessor or a SimpleSpanProcessor of   *)
(* the OpenTelemetry SDK) is outside the sources: a call of it returns or       *)
(* raises, and `exported` holds the spans handed to its onEnd.                  *)

MaxCalls == 3

\* Where a call of onEnd can raise: nowhere, in span.spanContext() before the
\* try block, or in one of the four steps inside it.
GuardedFaults ==
    {"isSpanEligible", "shouldCaptureSpan", "createFilteredSpan", "processor.onEnd"}
OnEndFaults == {"none", "span.spanContext"} \cup GuardedFaults

\* The step that is to raise is one this span gets to.
Raises(span, fault) ==
    LET address == getAttribute(span.attributes, "server.address")
        url == IF UrlAttribute(span.attributes) # <<>> THEN UrlAttribute(span.attributes)
               ELSE IF IsDefined(address) THEN HTTPS \o ValueOf(address)
               ELSE <<>>
    IN  \/ fault = "isSpanEligible"
        \/ fault = "shouldCaptureSpan" /\ isSpanEligible(span) /\ url # <<>>
        \/ fault \in {"createFilteredSpan", "processor.onEnd"} /\ onEnd(span) # <<>>

\* onEnd with the fault passed on to the caller.
ProcessorOnEnd_noCatch(span, fault) ==
    /\ call.count < MaxCalls
    /\ call' = [op |-> "onEnd", count |-> call.count + 1, span |-> span, fault |-> fault]
    /\ IF fault = "span.spanContext" \/ Raises(span, fault)
       THEN ret' = {"thrown"} /\ UNCHANGED <<exported, logger>>
       ELSE ret' = {"returned"} /\ exported' = exported \o onEnd(span)
                                /\ UNCHANGED logger
    /\ UNCHANGED <<processorConfig, requests, recordFromReq, spans, observed, httpHook, sdk, undici>>

ProcessorOnEnd(span, fault) ==
    /\ call.count < MaxCalls
    /\ call' = [op |-> "onEnd", count |-> call.count + 1, span |-> span, fault |-> fault]
    /\ IF fault = "span.spanContext"
       THEN ret' = {"thrown"} /\ UNCHANGED <<exported, logger>>
       ELSE IF Raises(span, fault)
       THEN /\ ret' = {"returned"}
            /\ logger' = Append(logger, "Error processing span")
            /\ UNCHANGED exported
       ELSE /\ ret' = {"returned"}
            /\ exported' = exported \o onEnd(span)
            /\ UNCHANGED logger
    /\ UNCHANGED <<processorConfig, requests, recordFromReq, spans, observed, httpHook, sdk, undici>>

\* forceFlush(): awaits the underlying processor's forceFlush(), which
\* resolves or rejects.
ProcessorForceFlush(outcome) ==
    /\ call.count < MaxCalls
    /\ call' = [op |-> "forceFlush", count |-> call.count + 1, underlying |-> outcome]
    /\ IF outcome = "rejects"
       THEN ret' = {"rejected"} /\ logger' = Append(logger, "Error during force flush")
       ELSE ret' = {"resolved"} /\ UNCHANGED logger
    /\ UNCHANGED <<processorConfig, requests, recordFromReq, spans, observed, exported, httpHook, sdk, undici>>

\* shutdown(): awaits the underlying processor's shutdown().
ProcessorShutdown(outcome) ==
    /\ call.count < MaxCalls
    /\ call' = [op |-> "shutdown", count |-> call.count + 1, underlying |-> outcome]
    /\ IF outcome = "rejects"
       THEN ret' = {"rejected"}
            /\ logger' = Append(logger, "Error during processor shutdown")
       ELSE ret' = {"resolved"} /\ UNCHANGED logger
    /\ UNCHANGED <<processorConfig, requests, recordFromReq, spans, observed, exported, httpHook, sdk, undici>>

\* Ended spans: a client call to a/x with both bodies, one to b/x, one with a
\* method only, and a span that is not a client call.
EndedSpan(spanId, kind, attributes) ==
    [end(startSpan(spanId, attributes)) EXCEPT !.kind = kind]

EndedSpans ==
    {EndedSpan("s1", "CLIENT",
               ("http.request.method" :> "GET") @@ ("url.full" :> URL_A)
                 @@ (HTTP_REQUEST_BODY :> <<"q">>) @@ (HTTP_RESPONSE_BODY :> <<"p">>)),
     EndedSpan("s2", "CLIENT",
               ("http.request.method" :> "GET") @@ ("url.full" :> URL_B)),
     EndedSpan("s3", "CLIENT", ("http.request.method" :> "GET")),
     EndedSpan("s4", "INTERNAL",
               ("http.request.method" :> "GET") @@ ("url.full" :> URL_A))}

UnderlyingOutcomes == {"resolves", "rejects"}

InitProcessor ==
    /\ call = [op |-> "constructor", count |-> 0] /\ ret = {}
    /\ processorConfig \in ProcessorConfigs
    /\ exported = <<>> /\ logger = <<>> /\ httpHook = <<>> /\ sdk = <<>> /\ undici = <<>>
    /\ requests = <<>> /\ recordFromReq = <<>> /\ spans = <<>> /\ observed = <<>>

NextProcessor ==
    \/ \E span \in EndedSpans, fault \in OnEndFaults : ProcessorOnEnd(span, fault)
    \/ \E outcome \in UnderlyingOutcomes : ProcessorForceFlush(outcome)
    \/ \E outcome \in UnderlyingOutcomes : ProcessorShutdown(outcome)

SpecProcessor == InitProcessor /\ [][NextProcessor]_vars

----------------------------------------------------------------------------
(* C13: onEnd keeps its faults to itself *)

\* C13: a call of onEnd in which eligibility checking, domain filtering,
\* payload extraction or the hand-off to the underlying processor raises
\* returns to its caller, logs one error and hands nothing over; a call in
\* which nothing raises, whatever happened in the calls before it, hands over
\* what the filters let through.
C13_OnEndStep ==
    (call'.op = "onEnd" /\ call'.count = call.count + 1
        /\ call'.fault \in GuardedFaults \cup {"none"}) =>
        /\ ret' = {"returned"}
        /\ IF Raises(call'.span, call'.fault)
           THEN /\ logger' = Append(logger, "Error processing span")
                /\ exported' = exported
           ELSE /\ logger' = logger
                /\ exported' = exported \o onEnd(call'.span)

C13_OnEndNeverThrows == [][C13_OnEndStep]_vars

\* The hand-off of one span raised, and the span of the next call is handed
\* over.
C13_Witness ==
    /\ call.op = "onEnd" /\ call.fault = "none" /\ ret = {"returned"}
    /\ logger = <<"Error processing span">>
    /\ Len(exported) = 1 /\ exported[1].spanId = call.span.spanId

----------------------------------------------------------------------------
(* C14: faults of forceFlush and shutdown *)

\* C14: a call of forceFlush or shutdown completes without throwing or
\* rejecting, also when the underlying processor fails.
C14_AbsorbsFaults ==
    call.op \in {"forceFlush", "shutdown"} => ret = {"resolved"}

\* What the code does: the failure is logged and passed on to the caller.
C14_LoggedAndRethrown ==
    (call.op \in {"forceFlush", "shutdown"} /\ call.underlying = "rejects") =>
        /\ ret = {"rejected"}
        /\ Len(logger) > 0
        /\ logger[Len(logger)] = IF call.op = "forceFlush"
                                 THEN "Error during force flush"
                                 ELSE "Error during processor shutdown"

----------------------------------------------------------------------------
(* C16: two calls in flight under different startTrace overrides *)

MaxConcurrentEvents == 6

\* startTrace({captureRequestBody: true, ...}) around the first call and
\* startTrace({captureRequestBody: false, ...}) around the second: the context
\* every message of the call is delivered in.
TraceContextOf(r) ==
    IF r = "r1" THEN ActiveContext(Some(TRUE), Some(FALSE))
    ELSE ActiveContext(Some(FALSE), Some(TRUE))

InitConcurrent ==
    /\ call = [op |-> "tracker", maxEvents |-> MaxConcurrentEvents] /\ ret = {}
    /\ processorConfig \in ProcessorConfigs
    /\ requests = [r \in Reqs |-> PlainRequest]
    /\ recordFromReq = [r \in Reqs |-> Undefined]
    /\ spans = [r \in Reqs |-> Undefined]
    /\ exported = <<>>
    /\ logger = <<>> /\ httpHook = <<>> /\ sdk = <<>> /\ undici = <<>>
    /\ observed = [r \in Reqs |->
            [events |-> 0, contexts |-> {}, terminals |-> <<>>,
             sent |-> <<>>, received |-> <<>>, requestSide |-> "streaming"]]

NextConcurrent ==
    \E r \in Reqs :
        \/ OnRequestCreated(r)
        \/ \E socket \in Sockets : OnRequestHeaders(r, socket)
        \/ \E response \in Responses : OnResponseHeaders(r, response)
        \/ \E chunk \in Chunks : OnBodyChunkSent(r, chunk, TraceContextOf(r))
        \/ OnBodySent(r, TraceContextOf(r))
        \/ \E chunk \in Chunks : OnBodyChunkReceived(r, chunk, TraceContextOf(r))
        \/ OnDone(r, TraceContextOf(r))
        \/ \E error \in Errors : OnError(r, error, TraceContextOf(r))

SpecConcurrent == InitConcurrent /\ [][NextConcurrent]_vars

\* The first call's request body is captured: the body-sent message that
\* finalizes its request side leaves the whole body, or the diagnostic for a
\* body over the ceiling, on its span.
C16_FirstCaptured ==
    (/\ Delivered("r1")
     /\ observed["r1"].requestSide = "streaming"
     /\ observed'["r1"].requestSide = "finalized"
     /\ IsDefined(recordFromReq["r1"]))
    => LET body == observed'["r1"].sent
           attribute == getAttribute(ValueOf(spans'["r1"]).attributes, HTTP_REQUEST_BODY)
       IN  /\ Len(body) > maxRequestBodySize
                => attribute = Some(TruncatedRequestBody(maxRequestBodySize))
           /\ (Len(body) >= 1 /\ Len(body) <= maxRequestBodySize)
                => attribute = Some(toStringUtf8(body))

\* The second call's request body is not: nothing of it is buffered and its
\* span never gets the attribute.
C16_SecondNotCaptured ==
    /\ IsDefined(recordFromReq'["r2"]) =>
          /\ ValueOf(recordFromReq'["r2"]).requestBodyChunks = <<>>
          /\ ValueOf(recordFromReq'["r2"]).requestBodySize = 0
    /\ IsDefined(spans'["r2"]) =>
          getAttribute(ValueOf(spans'["r2"]).attributes, HTTP_REQUEST_BODY) = Undefined

\* A message of one call changes nothing of the other call, and no message
\* changes the configuration.
C16_Isolated ==
    /\ processorConfig' = processorConfig
    /\ \A r, other \in Reqs :
          (Delivered(r) /\ other # r) =>
              /\ recordFromReq'[other] = recordFromReq[other]
              /\ spans'[other] = spans[other]

----------------------------------------------------------------------------
(* C17: finalization before the response headers *)

\* The span of the call was ended by the message that came first of its
\* terminal messages.
FinalizedBy(r, terminal) ==
    /\ Tracked(r) /\ observed[r].terminals # <<>>
    /\ Head(observed[r].terminals) = terminal

\* onResponseHeaders was processed for the call: it is what sets the status
\* code on the span.
ResponseHeadersProcessed(r) ==
    "http.response.status_code" \in DOMAIN SpanOf(r).attributes

\* C17: a trailers message ends the span of a tracked call only if a
\* response-headers message was processed for the call before; a call
\* finalized without one was finalized by an error message, with status ERROR.
C17_NoSuccessBeforeResponse ==
    \A r \in Reqs :
        /\ FinalizedBy(r, "trailers") => ResponseHeadersProcessed(r)
        /\ (FinalizedBy(r, "error") /\ ~ResponseHeadersProcessed(r))
              => SpanOf(r).status.code = "ERROR"

----------------------------------------------------------------------------
(* C19: termination by an error message *)

\* The error message of this step found a record for the request.
ErrorProcessed(r) ==
    /\ TerminalDelivered(r)
    /\ observed'[r].terminals[Len(observed'[r].terminals)] = "error"
    /\ IsDefined(recordFromReq[r])

\* C19 for one request.
C19_ErrorStep(r) ==
    ErrorProcessed(r) =>
        LET record == ValueOf(recordFromReq[r])
            before == SpanOf(r)
            after == ValueOf(spans'[r])
            buffered == toStringUtf8(BufferConcat(record.requestBodyChunks))
        IN  /\ after.status.code = "ERROR"
            /\ \E error \in Errors : after.status.message = Some(error.message)
            /\ after.endCalls = before.endCalls + 1
            /\ ~IsDefined(recordFromReq'[r])
            /\ \E activeContext \in observed'[r].contexts :
                  /\ observed'[r].contexts = observed[r].contexts \cup {activeContext}
                  /\ after.attributes =
                        IF /\ DecisionAt(r, "request", activeContext)
                           /\ Len(record.requestBodyChunks) > 0
                           /\ record.requestBodySize # Infinity
                        THEN setAttribute(before.attributes, HTTP_REQUEST_BODY, buffered)
                        ELSE before.attributes
            /\ getAttribute(after.attributes, HTTP_RESPONSE_BODY) = Undefined
            /\ \A i \in (Len(exported) + 1)..Len(exported') :
                  getAttribute(exported'[i].attributes, HTTP_RESPONSE_BODY) = Undefined

\* C19: an error message for a call that has a record sets the span's status
\* to ERROR with the error's message, ends the span and removes the record;
\* it attaches the request body buffered so far if and only if request capture
\* is enabled in the context of the message, chunks are buffered and the side
\* is not truncated; the response bytes buffered so far are neither put on
\* the span nor exported.
C19_ErrorTermination == [][\A r \in Reqs : C19_ErrorStep(r)]_vars

\* A call with one request chunk and response bytes buffered, both sides
\* captured by the global default, ended by an error: the request body is on
\* the span, the response body is not.
C19_Witness ==
    \E r \in Reqs :
        /\ Tracked(r) /\ observed[r].terminals = <<"error">>
        /\ processorConfig.captureResponseBody = Some(TRUE)
        /\ observed[r].contexts = {ActiveContext(Undefined, Undefined)}
        /\ AlwaysCaptured(r, "response", observed)
        /\ observed[r].received # <<>> /\ observed[r].sent = <<97>>
        /\ observed[r].requestSide = "streaming"
        /\ SpanOf(r).status = [code |-> "ERROR", message |-> Some("aborted")]
        /\ SpanOf(r).endCalls = 1
        /\ ~IsDefined(recordFromReq[r])
        /\ getAttribute(SpanOf(r).attributes, HTTP_REQUEST_BODY) = Some(toStringUtf8(<<97>>))
        /\ getAttribute(SpanOf(r).attributes, HTTP_RESPONSE_BODY) = Undefined

----------------------------------------------------------------------------
(* C18: extractSpanPayload applied twice *)

\* `const extractedAttributes = {...attributes}`: the deletions and additions
\* of extractSpanPayload go to the copy, so the span's own map is what it was.
\* With the alias the writes would go to the span's map.
AttributesAfterExtract_alias(span, domainAllowList, globalCaptureRequestBody, globalCaptureResponseBody) ==
    extractSpanPayload(span, domainAllowList, globalCaptureRequestBody,
                       globalCaptureResponseBody)

AttributesAfterExtract(span, domainAllowList, globalCaptureRequestBody, globalCaptureResponseBody) ==
    span.attributes

\* The SpanPayload that is returned: ids, kind and status read from the span,
\* and the extracted attributes.
SpanPayload(span, domainAllowList, globalCaptureRequestBody, globalCaptureResponseBody) ==
    [spanId |-> span.spanId,
     kind |-> span.kind,
     attributes |-> extractSpanPayload(span, domainAllowList, globalCaptureRequestBody,
                                       globalCaptureResponseBody),
     status |-> span.status]

MaxApplications == 2

\* Finished spans: with a url under url.full or http.url, with the host under
\* server.address only, or with neither, with and without each body.
ExtractUrlAttributes ==
    {<<>>, ("url.full" :> URL_A), ("http.url" :> URL_B) @@ ("url.full" :> URL_A),
     ("server.address" :> <<"a">>)}
ExtractBodyAttributes ==
    {<<>>, (HTTP_REQUEST_BODY :> <<"q">>), (HTTP_RESPONSE_BODY :> <<"p">>),
     (HTTP_REQUEST_BODY :> <<"q">>) @@ (HTTP_RESPONSE_BODY :> <<"p">>)}
FinishedSpans ==
    {EndedSpan("s1", "CLIENT", ("http.request.method" :> "GET") @@ u @@ b) :
        u \in ExtractUrlAttributes, b \in ExtractBodyAttributes}

ExtractCalls ==
    [op : {"extractSpanPayload"}, span : FinishedSpans,
     domainAllowList : OptionalLists(CaptureRules),
     globalCaptureRequestBody : OptionalBooleans,
     globalCaptureResponseBody : OptionalBooleans]

InitExtract == call \in ExtractCalls /\ ret = {} /\ NoTracker

\* One application: the payload is returned (and kept in `exported`), and the
\* span object of the call is left as the function leaves it.
CallExtractSpanPayload ==
    /\ call.op = "extractSpanPayload" /\ Len(exported) < MaxApplications
    /\ LET payload == SpanPayload(call.span, call.domainAllowList,
                                  call.globalCaptureRequestBody,
                                  call.globalCaptureResponseBody)
       IN  /\ ret' = {payload}
           /\ exported' = Append(exported, payload)
    /\ call' = [call EXCEPT !.span.attributes =
                    AttributesAfterExtract(call.span, call.domainAllowList,
                                           call.globalCaptureRequestBody,
                                           call.globalCaptureResponseBody)]
    /\ UNCHANGED <<processorConfig, requests, recordFromReq, spans, observed, logger, httpHook, sdk, undici>>

SpecExtract == InitExtract /\ [][CallExtractSpanPayload]_vars

\* The payloads of two applications are equal.
C18_EqualPayloads ==
    (call.op = "extractSpanPayload" /\ Len(exported) = 2) => exported[1] = exported[2]

\* An application leaves the span as it was.
C18_SpanUnchanged ==
    call.op = "extractSpanPayload" => call'.span = call.span

----------------------------------------------------------------------------
(* Node http instrumentation: .../instrumentations/http/pingops-http.ts       *)
(* One outgoing request: the request hook wraps write and end, the response   *)
(* hook listens to data and end.                                              *)

MaxHttpChunks == 2

\* config?.maxRequestBodySize || DEFAULT_MAX_REQUEST_BODY_SIZE, and the same
\* for the response.
httpMaxRequestBodySize ==
    IF IsDefined(httpHook.config.maxRequestBodySize)
          /\ ValueOf(httpHook.config.maxRequestBodySize) # 0
    THEN ValueOf(httpHook.config.maxRequestBodySize)
    ELSE DEFAULT_MAX_REQUEST_BODY_SIZE

httpMaxResponseBodySize ==
    IF IsDefined(httpHook.config.maxResponseBodySize)
          /\ ValueOf(httpHook.config.maxResponseBodySize) # 0
    THEN ValueOf(httpHook.config.maxResponseBodySize)
    ELSE DEFAULT_MAX_RESPONSE_BODY_SIZE

\* captureRequestBody(span, data, maxSize, HTTP_REQUEST_BODY, url), data a
\* Buffer: the span after the call.
httpCaptureRequestBody(span, data, maxSize, url, activeContext) ==
    IF ~httpShouldCaptureRequestBody(activeContext, getGlobalConfig, url) THEN span
    ELSE IF Len(data) # 0 /\ Len(data) <= maxSize /\ toStringUtf8(data) # <<>>
    THEN [span EXCEPT !.attributes = setAttribute(@, HTTP_REQUEST_BODY, toStringUtf8(data))]
    ELSE span

\* captureResponseBody(span, chunks, HTTP_RESPONSE_BODY, url); chunks is
\* Undefined for null.
httpCaptureResponseBody(span, chunks, url, activeContext) ==
    IF ~httpShouldCaptureResponseBody(activeContext, getGlobalConfig, url) THEN span
    ELSE IF IsDefined(chunks) /\ Len(ValueOf(chunks)) # 0
              /\ toStringUtf8(BufferConcat(ValueOf(chunks))) # <<>>
    THEN [span EXCEPT !.attributes =
            setAttribute(@, HTTP_RESPONSE_BODY, toStringUtf8(BufferConcat(ValueOf(chunks))))]
    ELSE span

HttpUnchanged ==
    UNCHANGED <<call, ret, processorConfig, requests, recordFromReq, exported, logger, sdk, undici>>

\* The request hook: url is built from the protocol, the host header and the
\* path, and is undefined without a host header.
HttpRequestHook(url) ==
    /\ httpHook.phase = "created"
    /\ httpHook' = [httpHook EXCEPT !.phase = "request", !.url = url]
    /\ UNCHANGED <<spans, observed>> /\ HttpUnchanged

\* request.write(data)
HttpWrite(data, activeContext) ==
    /\ httpHook.phase = "request" /\ Len(observed.writes) < MaxHttpChunks
    /\ spans' = [spans EXCEPT !["h1"] =
            Some(httpCaptureRequestBody(ValueOf(@), data, httpMaxRequestBodySize,
                                        httpHook.url, activeContext))]
    /\ observed' = [observed EXCEPT !.writes = Append(@, data),
                                    !.requestContexts = @ \cup {activeContext}]
    /\ UNCHANGED httpHook /\ HttpUnchanged

\* request.end(data), data a Buffer or absent
HttpEnd(data, activeContext) ==
    /\ httpHook.phase = "request"
    /\ IsDefined(data) => Len(observed.writes) < MaxHttpChunks
    /\ IF IsDefined(data)
       THEN /\ spans' = [spans EXCEPT !["h1"] =
                    Some(httpCaptureRequestBody(ValueOf(@), ValueOf(data),
                            httpMaxRequestBodySize, httpHook.url, activeContext))]
            /\ observed' = [observed EXCEPT !.writes = Append(@, ValueOf(data)),
                                            !.requestContexts = @ \cup {activeContext}]
       ELSE UNCHANGED <<spans, observed>>
    /\ httpHook' = [httpHook EXCEPT !.phase = "sent"]
    /\ HttpUnchanged

\* The response hook: chunks = [], totalSize = 0, and the decision taken once
\* for the data listener, at response.url || undefined.
HttpResponseHook(responseUrl, activeContext) ==
    /\ httpHook.phase = "sent"
    /\ httpHook' = [httpHook EXCEPT
            !.phase = "response",
            !.responseUrl = responseUrl,
            !.chunks = Some(<<>>),
            !.totalSize = 0,
            !.shouldCapture = httpShouldCaptureResponseBody(activeContext, getGlobalConfig,
                                                            responseUrl)]
    /\ observed' = [observed EXCEPT !.responseContexts = @ \cup {activeContext}]
    /\ UNCHANGED spans /\ HttpUnchanged

\* The "data" listener
HttpData(chunk) ==
    /\ httpHook.phase = "response" /\ Len(observed.received) < MaxHttpChunks
    /\ IF ~httpHook.shouldCapture THEN UNCHANGED httpHook
       ELSE LET totalSize == httpHook.totalSize + Len(chunk)
            IN  httpHook' = [httpHook EXCEPT
                    !.totalSize = totalSize,
                    !.chunks = IF IsDefined(httpHook.chunks)
                                    /\ totalSize <= httpMaxResponseBodySize
                               THEN Some(Append(ValueOf(httpHook.chunks), chunk))
                               ELSE Undefined]
    /\ observed' = [observed EXCEPT !.received = Append(@, chunk)]
    /\ UNCHANGED spans /\ HttpUnchanged

\* The "end" listener
HttpResponseEnd(activeContext) ==
    /\ httpHook.phase = "response"
    /\ spans' = [spans EXCEPT !["h1"] =
            Some(httpCaptureResponseBody(ValueOf(@), httpHook.chunks,
                                         httpHook.responseUrl, activeContext))]
    /\ httpHook' = [httpHook EXCEPT !.phase = "ended"]
    /\ observed' = [observed EXCEPT !.responseContexts = @ \cup {activeContext}]
    /\ HttpUnchanged

HttpConfigs ==
    {[maxRequestBodySize |-> Undefined, maxResponseBodySize |-> Undefined],
     [maxRequestBodySize |-> Some(SmallBodySize), maxResponseBodySize |-> Some(SmallBodySize)]}

InitHttp ==
    /\ call = [op |-> "http"] /\ ret = {}
    /\ processorConfig \in ProcessorConfigs
    /\ httpHook \in [config : HttpConfigs, phase : {"created"}, url : {Undefined},
                     responseUrl : {Undefined}, chunks : {Some(<<>>)},
                     totalSize : {0}, shouldCapture : {FALSE}]
    /\ spans = [r \in {"h1"} |-> Some(startSpan(r, <<>>))]
    /\ observed = [writes |-> <<>>, received |-> <<>>,
                   requestContexts |-> {}, responseContexts |-> {}]
    /\ requests = <<>> /\ recordFromReq = <<>> /\ exported = <<>> /\ logger = <<>>
    /\ sdk = <<>> /\ undici = <<>>

NextHttp ==
    \/ \E url \in {Undefined, Some(URL_A)} : HttpRequestHook(url)
    \/ \E data \in Chunks, activeContext \in ActiveContexts : HttpWrite(data, activeContext)
    \/ \E data \in {Undefined} \cup {Some(c) : c \in Chunks}, activeContext \in ActiveContexts :
            HttpEnd(data, activeContext)
    \/ \E responseUrl \in {Undefined, Some(URL_A)}, activeContext \in ActiveContexts :
            HttpResponseHook(responseUrl, activeContext)
    \/ \E chunk \in Chunks : HttpData(chunk)
    \/ \E activeContext \in ActiveContexts : HttpResponseEnd(activeContext)

SpecHttp == InitHttp /\ [][NextHttp]_vars

----------------------------------------------------------------------------
(* C20: the body policy of the http instrumentation *)

\* Capture of the side was enabled at every call that resolved it.
HttpRequestCaptureEnabled ==
    \A activeContext \in observed.requestContexts :
        httpShouldCaptureRequestBody(activeContext, getGlobalConfig, httpHook.url)
HttpResponseCaptureEnabled ==
    \A activeContext \in observed.responseContexts :
        httpShouldCaptureResponseBody(activeContext, getGlobalConfig, httpHook.responseUrl)

\* C20: with capture enabled, once the request is ended the span's
\* http.request.body is the whole body (all writes, in order) when the writes
\* sum to no more than the ceiling, and is present and not the body's content
\* (the truncation diagnostic) when they sum to more; once the response has
\* ended the same holds of http.response.body and the data chunks.
C20_HttpBodyPolicy ==
    call.op = "http" =>
        LET span == ValueOf(spans["h1"])
            requestBody == BufferConcat(observed.writes)
            responseBody == BufferConcat(observed.received)
        IN  /\ (httpHook.phase \in {"sent", "response", "ended"} /\ HttpRequestCaptureEnabled)
                => /\ Len(requestBody) > httpMaxRequestBodySize
                        => \E text \in getAttribute(span.attributes, HTTP_REQUEST_BODY) :
                              text # toStringUtf8(requestBody)
                   /\ (Len(requestBody) >= 1 /\ Len(requestBody) <= httpMaxRequestBodySize)
                        => getAttribute(span.attributes, HTTP_REQUEST_BODY)
                              = Some(toStringUtf8(requestBody))
            /\ (httpHook.phase = "ended" /\ HttpResponseCaptureEnabled)
                => /\ Len(responseBody) > httpMaxResponseBodySize
                        => \E text \in getAttribute(span.attributes, HTTP_RESPONSE_BODY) :
                              text # toStringUtf8(responseBody)
                   /\ (Len(responseBody) >= 1 /\ Len(responseBody) <= httpMaxResponseBodySize)
                        => getAttribute(span.attributes, HTTP_RESPONSE_BODY)
                              = Some(toStringUtf8(responseBody))

\* What the code does on the response side: a body within the ceiling is
\* exported whole, a body over the ceiling is exported as nothing.
C20_HttpResponseAsBuilt ==
    (call.op = "http" /\ httpHook.phase = "ended" /\ HttpResponseCaptureEnabled) =>
        LET span == ValueOf(spans["h1"])
            responseBody == BufferConcat(observed.received)
        IN  getAttribute(span.attributes, HTTP_RESPONSE_BODY) =
                IF Len(responseBody) >= 1 /\ Len(responseBody) <= httpMaxResponseBodySize
                THEN Some(toStringUtf8(responseBody))
                ELSE Undefined

----------------------------------------------------------------------------
(* Network timings of the http instrumentation:                            *)
(* packages/otel/src/instrumentations/http/http.ts                         *)

NETWORK_DNS_LOOKUP_DURATION == "net.dns.lookup.duration"
NETWORK_TCP_CONNECT_DURATION == "net.tcp.connect.duration"
NETWORK_TLS_HANDSHAKE_DURATION == "net.tls.handshake.duration"
NETWORK_TTFB_DURATION == "net.ttfb.duration"
NETWORK_CONTENT_TRANSFER_DURATION == "net.content.transfer.duration"

\* The truthiness of a mark (number | undefined): undefined and 0 are falsy.
Truthy(mark) == IsDefined(mark) /\ ValueOf(mark) # 0

startTTFB_tcpFirst(networkTimings) ==
    IF Truthy(networkTimings.tcpConnectionAt)
    THEN networkTimings.tcpConnectionAt ELSE networkTimings.tlsHandshakeAt

\* networkTimings.tlsHandshakeAt || networkTimings.tcpConnectionAt
startTTFB(networkTimings) ==
    IF Truthy(networkTimings.tlsHandshakeAt)
    THEN networkTimings.tlsHandshakeAt ELSE networkTimings.tcpConnectionAt

\* span.setAttribute(key, to - from) when both marks are truthy.
WithDuration(attributes, key, from, to) ==
    IF Truthy(from) /\ Truthy(to)
    THEN setAttribute(attributes, key, ValueOf(to) - ValueOf(from))
    ELSE attributes

\* The attributes of the span after processNetworkTimings(span, networkTimings).
processNetworkTimings(span, networkTimings) ==
    LET a1 == WithDuration(span.attributes, NETWORK_DNS_LOOKUP_DURATION,
                           networkTimings.startAt, networkTimings.dnsLookupAt)
        a2 == WithDuration(a1, NETWORK_TCP_CONNECT_DURATION,
                           networkTimings.dnsLookupAt, networkTimings.tcpConnectionAt)
        a3 == WithDuration(a2, NETWORK_TLS_HANDSHAKE_DURATION,
                           networkTimings.tcpConnectionAt, networkTimings.tlsHandshakeAt)
        a4 == WithDuration(a3, NETWORK_TTFB_DURATION,
                           startTTFB(networkTimings), networkTimings.firstByteAt)
    IN  WithDuration(a4, NETWORK_CONTENT_TRANSFER_DURATION,
                     networkTimings.firstByteAt, networkTimings.endAt)

\* Marks are Date.now() readings, in milliseconds since 1970: positive.
MaxTime == 4
Marks == {Undefined} \cup {Some(t) : t \in 1..MaxTime}

\* The marks in the order in which the hooks take them: span start, socket
\* "lookup", "connect", "secureConnect", response "readable", response "end".
MarkOrder(networkTimings) ==
    <<networkTimings.startAt, networkTimings.dnsLookupAt,
      networkTimings.tcpConnectionAt, networkTimings.tlsHandshakeAt,
      networkTimings.firstByteAt, networkTimings.endAt>>

\* A later event never reads an earlier clock value.
Monotonic(networkTimings) ==
    \A i, j \in 1..6 :
        (i < j /\ IsDefined(MarkOrder(networkTimings)[i])
               /\ IsDefined(MarkOrder(networkTimings)[j]))
            => ValueOf(MarkOrder(networkTimings)[i]) <= ValueOf(MarkOrder(networkTimings)[j])

\* initializeNetworkTimings sets startAt; every other mark is optional.
NetworkTimingsInputs ==
    {t \in [startAt : Marks \ {Undefined}, dnsLookupAt : Marks,
            tcpConnectionAt : Marks, tlsHandshakeAt : Marks,
            firstByteAt : Marks, endAt : Marks] : Monotonic(t)}

InitNetworkTimings ==
    /\ call \in [op : {"processNetworkTimings"}, networkTimings : NetworkTimingsInputs]
    /\ ret = {} /\ NoTracker

CallProcessNetworkTimings ==
    /\ call.op = "processNetworkTimings" /\ ret = {}
    /\ ret' = {processNetworkTimings([attributes |-> <<>>], call.networkTimings)}
    /\ UNCHANGED call /\ UNCHANGED trackerVars

SpecNetworkTimings == InitNetworkTimings /\ [][CallProcessNetworkTimings]_vars

\* The later of the TLS and TCP marks that are present, if any.
LaterOfTlsTcp(t) ==
    IF IsDefined(t.tlsHandshakeAt) /\ IsDefined(t.tcpConnectionAt)
    THEN Some(Max(ValueOf(t.tlsHandshakeAt), ValueOf(t.tcpConnectionAt)))
    ELSE t.tlsHandshakeAt \cup t.tcpConnectionAt

\* The attribute key is set exactly when both marks are present, to to - from.
DurationIs(attributes, key, from, to) ==
    /\ key \in DOMAIN attributes <=> (IsDefined(from) /\ IsDefined(to))
    /\ key \in DOMAIN attributes => attributes[key] = ValueOf(to) - ValueOf(from)

\* C21: processNetworkTimings sets each derived duration exactly when both of
\* its endpoint marks are present, to dnsLookupAt - startAt,
\* tcpConnectionAt - dnsLookupAt, tlsHandshakeAt - tcpConnectionAt,
\* firstByteAt - max(tlsHandshakeAt, tcpConnectionAt) and endAt - firstByteAt;
\* it sets nothing else and no duration it sets is negative.
C21_Durations ==
    (call.op = "processNetworkTimings" /\ ret # {}) =>
        LET t == call.networkTimings
            attributes == ValueOf(ret)
        IN  /\ DurationIs(attributes, NETWORK_DNS_LOOKUP_DURATION, t.startAt, t.dnsLookupAt)
            /\ DurationIs(attributes, NETWORK_TCP_CONNECT_DURATION, t.dnsLookupAt, t.tcpConnectionAt)
            /\ DurationIs(attributes, NETWORK_TLS_HANDSHAKE_DURATION, t.tcpConnectionAt, t.tlsHandshakeAt)
            /\ DurationIs(attributes, NETWORK_TTFB_DURATION, LaterOfTlsTcp(t), t.firstByteAt)
            /\ DurationIs(attributes, NETWORK_CONTENT_TRANSFER_DURATION, t.firstByteAt, t.endAt)
            /\ \A key \in DOMAIN attributes : attributes[key] >= 0
            /\ DOMAIN attributes \subseteq
                  {NETWORK_DNS_LOOKUP_DURATION, NETWORK_TCP_CONNECT_DURATION,
                   NETWORK_TLS_HANDSHAKE_DURATION, NETWORK_TTFB_DURATION,
                   NETWORK_CONTENT_TRANSFER_DURATION}

\* A TLS request whose handshake took time and whose DNS mark is missing: the
\* time to first byte is counted from the handshake, and the DNS and TCP
\* durations are left out.
C21_Witness ==
    /\ call.op = "processNetworkTimings" /\ ret # {}
    /\ call.networkTimings.dnsLookupAt = Undefined
    /\ IsDefined(call.networkTimings.tcpConnectionAt)
    /\ IsDefined(call.networkTimings.tlsHandshakeAt)
    /\ ValueOf(call.networkTimings.tlsHandshakeAt) > ValueOf(call.networkTimings.tcpConnectionAt)
    /\ IsDefined(call.networkTimings.firstByteAt)
    /\ NETWORK_TTFB_DURATION \in DOMAIN ValueOf(ret)
    /\ NETWORK_TCP_CONNECT_DURATION \notin DOMAIN ValueOf(ret)

----------------------------------------------------------------------------
(* SDK initialization: packages/sdk/src/pingops.ts,                        *)
(* packages/sdk/src/config-loader.ts, packages/otel/src/tracer-provider.ts *)
(* sdk holds the module variables of pingops.ts (sdkInstance,              *)
(* isSdkInitializedFlag, isInitialized, initializationPromise), the        *)
(* isolated tracer provider of the global state, the global config the     *)
(* processor constructor registers, the environment, and as history the    *)
(* NodeSDKs started, the shutdowns completed and the runs of fn.           *)

MaxSdkCalls == 4

TraceIds == {"t1", "t2", "t3"}

REQUIRED_ENV == {"PINGOPS_API_KEY", "PINGOPS_BASE_URL", "PINGOPS_SERVICE_NAME"}

\* process.env: everything set, the API key missing, nothing set.
Environments == {REQUIRED_ENV, REQUIRED_ENV \ {"PINGOPS_API_KEY"}, {}}

\* The keys of mergeConfigWithEnv(fileConfig): the file's and the environment's.
mergeConfigWithEnv(fileConfig, env) ==
    fileConfig
      \cup (IF "PINGOPS_API_KEY" \in env THEN {"apiKey"} ELSE {})
      \cup (IF "PINGOPS_BASE_URL" \in env THEN {"baseUrl"} ELSE {})
      \cup (IF "PINGOPS_SERVICE_NAME" \in env THEN {"serviceName"} ELSE {})

\* Config files: one with every key, one with the API key only, and a path
\* at which readFileSync fails.  A file is the set of keys it defines.
ConfigFiles == {"complete.json", "partial.json", "missing.json"}

loadConfigFromFile(filePath) ==
    IF filePath = "complete.json" THEN Some({"apiKey", "baseUrl", "serviceName"})
    ELSE IF filePath = "partial.json" THEN Some({"apiKey"})
    ELSE Undefined

\* resolveConfigFromFile: the merged config, or undefined where it throws.
resolveConfigFromFile(configFilePath, env) ==
    LET fileConfig == loadConfigFromFile(configFilePath)
    IN  IF ~IsDefined(fileConfig) THEN Undefined
        ELSE LET mergedConfig == mergeConfigWithEnv(ValueOf(fileConfig), env)
             IN  IF "baseUrl" \notin mergedConfig \/ "serviceName" \notin mergedConfig
                 THEN Undefined
                 ELSE Some(mergedConfig)

\* The three forms of the argument of initializePingops.
SdkConfigs ==
    {[form |-> "object", keys |-> {"apiKey", "baseUrl", "serviceName"}]}
      \cup [form : {"path", "wrapper"}, configFile : ConfigFiles]

\* isSdkInitialized(): the provider of getPingopsTracerProvider() is a
\* NodeTracerProvider.  The isolated provider is one; the fallback,
\* trace.getTracerProvider(), is the API's proxy provider, which is not.
isSdkInitialized(s) == IsDefined(s.isolatedTracerProvider)

\* getInstrumentations(): the HTTP and the Undici instrumentation at the first
\* call of the process, none afterwards; `installed` is the module's flag.
getInstrumentations(installed) == IF installed THEN {} ELSE {"http", "undici"}

\* initializePingops(config): the state after the call and how it ended.
\* providerFails: the isolated provider's construction or registration raises.
initializePingops(s, config, providerFails) ==
    LET resolvedConfig == IF config.form = "object" THEN Some(config.keys)
                          ELSE resolveConfigFromFile(config.configFile, s.env)
    IN  IF ~IsDefined(resolvedConfig) THEN [sdk |-> s, result |-> "thrown"]
        ELSE IF s.isSdkInitializedFlag THEN [sdk |-> s, result |-> "returned"]
        ELSE [sdk |-> [s EXCEPT
                         !.globalConfig = Some(ValueOf(resolvedConfig)),
                         !.started = @ + 1,
                         !.installed = TRUE,
                         !.instrumentations = Append(@, getInstrumentations(s.installed)),
                         !.sdkInstance = Some(s.started + 1),
                         !.isSdkInitializedFlag = TRUE,
                         !.isolatedTracerProvider =
                             IF providerFails THEN @ ELSE Some(s.started + 1)],
              result |-> "returned"]

SdkUnchanged ==
    UNCHANGED <<processorConfig, requests, recordFromReq, spans, exported,
                observed, logger, httpHook, undici>>

\* What a later call of initializePingops must leave alone.
SdkSnapshot(s) ==
    [initialized |-> s.isSdkInitializedFlag, started |-> s.started,
     globalConfig |-> s.globalConfig, provider |-> s.isolatedTracerProvider]

InitializePingops(config, providerFails) ==
    /\ call.count < MaxSdkCalls
    /\ LET outcome == initializePingops(sdk, config, providerFails)
       IN  /\ sdk' = outcome.sdk
           /\ ret' = {outcome.result}
    /\ call' = [op |-> "initializePingops", count |-> call.count + 1,
                config |-> config, before |-> SdkSnapshot(sdk)]
    /\ SdkUnchanged

\* shutdownPingops(): shutdownTracerProvider() shuts the isolated provider
\* down and clears it; then the NodeSDK, if there is one, is shut down and the
\* flags are reset.  Either shutdown can reject.
ShutdownPingops(outcome) ==
    /\ call.count < MaxSdkCalls
    /\ call' = [op |-> "shutdownPingops", count |-> call.count + 1, outcome |-> outcome]
    /\ IF outcome = "provider.shutdown rejects" /\ IsDefined(sdk.isolatedTracerProvider)
       THEN ret' = {"rejected"} /\ UNCHANGED sdk
       ELSE IF ~IsDefined(sdk.sdkInstance)
       THEN /\ ret' = {"resolved"}
            /\ sdk' = [sdk EXCEPT !.isolatedTracerProvider = Undefined]
       ELSE IF outcome = "sdkInstance.shutdown rejects"
       THEN /\ ret' = {"rejected"}
            /\ sdk' = [sdk EXCEPT !.isolatedTracerProvider = Undefined]
       ELSE /\ ret' = {"resolved"}
            /\ sdk' = [sdk EXCEPT !.isolatedTracerProvider = Undefined,
                                  !.sdkInstance = Undefined,
                                  !.isSdkInitializedFlag = FALSE,
                                  !.shutdowns = @ + 1]
    /\ SdkUnchanged

\* startTrace(options, fn) up to its first await.  With the SDK initialized
\* it goes on to run fn; otherwise ensureInitialized() returns at once when
\* isInitialized is set, waits for an initialization in progress, or starts
\* one.
StartTrace(t) ==
    /\ call.count < MaxSdkCalls
    /\ sdk.traces[t].at = "idle"
    /\ call' = [op |-> "startTrace", count |-> call.count + 1, trace |-> t]
    /\ ret' = {"pending"}
    /\ LET issued == [at |-> "ready", issuedInitialized |-> sdk.isSdkInitializedFlag,
                      issuedAfter |-> sdk.shutdowns]
       IN  IF isSdkInitialized(sdk) \/ sdk.isInitialized
           THEN sdk' = [sdk EXCEPT !.traces[t] = issued]
           ELSE sdk' = [sdk EXCEPT !.traces[t] = [issued EXCEPT !.at = "awaiting"],
                                   !.initializationPromise = TRUE]
    /\ SdkUnchanged

\* The callback of initializationPromise, and the promise settling: without
\* the three variables it throws and every startTrace waiting on it rejects;
\* otherwise it calls initializePingops and sets isInitialized.
AutoInitialize(providerFails) ==
    /\ sdk.initializationPromise
    /\ LET settled(s, to) ==
             [s EXCEPT !.initializationPromise = FALSE,
                       !.traces = [t \in TraceIds |->
                                     IF s.traces[t].at = "awaiting"
                                     THEN [s.traces[t] EXCEPT !.at = to]
                                     ELSE s.traces[t]]]
       IN  IF ~(REQUIRED_ENV \subseteq sdk.env)
           THEN sdk' = settled(sdk, "rejected")
           ELSE LET config == [form |-> "object",
                               keys |-> {"apiKey", "baseUrl", "serviceName"}]
                    outcome == initializePingops(sdk, config, providerFails)
                IN  sdk' = settled([outcome.sdk EXCEPT !.isInitialized = TRUE], "ready")
    /\ UNCHANGED <<call, ret>> /\ SdkUnchanged

\* context.with(contextWithAttributes, run): fn runs.
RunFn(t) ==
    /\ sdk.traces[t].at = "ready"
    /\ sdk' = [sdk EXCEPT
                 !.traces[t].at = "ran",
                 !.fnRuns = @ \cup {[trace |-> t,
                                     initialized |-> sdk.isSdkInitializedFlag,
                                     issuedInitialized |-> sdk.traces[t].issuedInitialized,
                                     shutdownBetween |->
                                         sdk.shutdowns # sdk.traces[t].issuedAfter]}]
    /\ UNCHANGED <<call, ret>> /\ SdkUnchanged

InitSdk ==
    /\ call = [op |-> "import", count |-> 0] /\ ret = {}
    /\ sdk \in [env : Environments, sdkInstance : {Undefined},
                isSdkInitializedFlag : {FALSE}, isInitialized : {FALSE},
                initializationPromise : {FALSE}, isolatedTracerProvider : {Undefined},
                globalConfig : {Undefined}, started : {0}, shutdowns : {0},
                installed : {FALSE}, instrumentations : {<<>>},
                traces : {[t \in TraceIds |->
                             [at |-> "idle", issuedInitialized |-> FALSE, issuedAfter |-> 0]]},
                fnRuns : {{}}]
    /\ processorConfig = <<>> /\ requests = <<>> /\ recordFromReq = <<>>
    /\ spans = <<>> /\ exported = <<>> /\ observed = <<>> /\ logger = <<>>
    /\ httpHook = <<>> /\ undici = <<>>

NextSdk ==
    \/ \E config \in SdkConfigs, providerFails \in BOOLEAN :
          InitializePingops(config, providerFails)
    \/ \E outcome \in {"resolves", "provider.shutdown rejects",
                       "sdkInstance.shutdown rejects"} : ShutdownPingops(outcome)
    \/ \E t \in TraceIds : StartTrace(t)
    \/ \E providerFails \in BOOLEAN : AutoInitialize(providerFails)
    \/ \E t \in TraceIds : RunFn(t)

SpecSdk == InitSdk /\ [][NextSdk]_vars

----------------------------------------------------------------------------
(* C22: a second initializePingops *)

\* C22: once the SDK is initialized, a further call of initializePingops, with
\* a config object, a config file path or a {configFile} wrapper, returns
\* without throwing and leaves the NodeSDKs started, the global config and the
\* tracer provider as they were.
C22_SecondCallIsNoOp ==
    (call.op = "initializePingops" /\ call.before.initialized) =>
        /\ ret = {"returned"}
        /\ SdkSnapshot(sdk) = call.before

\* What the code keeps of it: a further call changes nothing, whether it
\* returns or throws.
C22_SecondCallChangesNothing ==
    (call.op = "initializePingops" /\ call.before.initialized) =>
        SdkSnapshot(sdk) = call.before

----------------------------------------------------------------------------
(* C23: startTrace and the initialization of the SDK *)

\* C23: fn of a startTrace that was issued while the SDK was not initialized
\* runs only with the SDK initialized, in every sequence of initializePingops,
\* startTrace and shutdownPingops calls in which no shutdown comes between the
\* startTrace call and its fn.
C23_FnRunsInitialized ==
    \A run \in sdk.fnRuns :
        (~run.issuedInitialized /\ ~run.shutdownBetween) => run.initialized

\* What holds of the rejection: with a variable missing and nothing else
\* initializing the SDK, no fn has run.
C23_RejectsWithoutRunning ==
    (~(REQUIRED_ENV \subseteq sdk.env) /\ sdk.started = 0) => sdk.fnRuns = {}

----------------------------------------------------------------------------
(* Suppression guard: packages/otel/src/instrumentations/suppression-guard.ts *)

\* A Context, as far as the guard is concerned: whether tracing is suppressed
\* in it (isTracingSuppressed) and which context it is.
ROOT_CONTEXT == [id |-> "ROOT_CONTEXT", suppressed |-> FALSE]
suppressTracing(ctx) == [ctx EXCEPT !.suppressed = TRUE]

\* new URL(url).toString(), or null (undefined here) where the constructor
\* throws: the scheme, the host in lower case, the path ("/" when empty).
normalizeUrl(url) ==
    IF NewURL(url).ok
    THEN Some(SubSeq(url, 1, SchemeLen(url)) \o toLowerCase(NewURL(url).hostname)
                \o NewURL(url).pathname)
    ELSE Undefined

isExporterRequestUrl_rawPrefix(requestUrl, exportTraceUrl) ==
    /\ IsDefined(requestUrl) /\ IsDefined(exportTraceUrl)
    /\ startsWith(ValueOf(requestUrl), ValueOf(exportTraceUrl))

\* exportTraceUrl is getGlobalConfig()?.exportTraceUrl.
isExporterRequestUrl(requestUrl, exportTraceUrl) ==
    IF ~IsDefined(requestUrl) \/ requestUrl = Some(<<>>) THEN FALSE
    ELSE IF ~IsDefined(exportTraceUrl) \/ exportTraceUrl = Some(<<>>) THEN FALSE
    ELSE LET normalizedRequestUrl == normalizeUrl(ValueOf(requestUrl))
             normalizedExporterUrl == normalizeUrl(ValueOf(exportTraceUrl))
         IN  IF ~IsDefined(normalizedRequestUrl) \/ ~IsDefined(normalizedExporterUrl)
             THEN FALSE
             ELSE startsWith(ValueOf(normalizedRequestUrl), ValueOf(normalizedExporterUrl))

resolveOutboundSpanParentContext(activeContext, requestUrl, exportTraceUrl) ==
    IF ~activeContext.suppressed THEN activeContext
    ELSE IF isExporterRequestUrl(requestUrl, exportTraceUrl) THEN activeContext
    ELSE ROOT_CONTEXT

HTTPS_P == HTTPS \o <<"p">>
HTTPS_P_V == HTTPS \o <<"p", "/", "v">>

GuardContexts ==
    {ROOT_CONTEXT, suppressTracing(ROOT_CONTEXT),
     [id |-> "trace", suppressed |-> FALSE], [id |-> "trace", suppressed |-> TRUE]}

\* The exporter's URL itself, below it, beside it, in another spelling, on
\* another host or scheme, and strings that are no URL.
GuardRequestUrls ==
    {Undefined, Some(<<>>), Some(HTTPS_P_V), Some(HTTPS_P_V \o <<"/", "x">>),
     Some(HTTPS_P_V \o <<"x">>), Some(HTTPS \o <<"P", "/", "v">>),
     Some(HTTPS \o <<"/", "p", "/", "v">>), Some(HTTPS_P), Some(HTTPS_P \o <<"/">>),
     Some(HTTPS \o <<"p", ".", "a", "/", "v">>), Some(HTTP \o <<"p", "/", "v">>),
     Some(<<"p", "/", "v">>), Some(HTTPS \o <<"a", "/", "v">>)}

ExportTraceUrls ==
    {Undefined, Some(<<>>), Some(HTTPS_P_V), Some(HTTPS_P), Some(<<"p", "/", "v">>)}

InitGuard ==
    /\ call \in [op : {"resolveOutboundSpanParentContext"},
                 activeContext : GuardContexts, requestUrl : GuardRequestUrls,
                 exportTraceUrl : ExportTraceUrls]
    /\ ret = {} /\ NoTracker

CallResolveOutboundSpanParentContext ==
    /\ call.op = "resolveOutboundSpanParentContext" /\ ret = {}
    /\ ret' = {resolveOutboundSpanParentContext(call.activeContext, call.requestUrl,
                                                call.exportTraceUrl)}
    /\ UNCHANGED call /\ UNCHANGED trackerVars

SpecGuard == InitGuard /\ [][CallResolveOutboundSpanParentContext]_vars

\* The request goes to the configured exporter: both URLs parse, and the
\* request's normal form starts with the exporter's.
ToExporter(c) ==
    /\ IsDefined(c.requestUrl) /\ IsDefined(c.exportTraceUrl)
    /\ IsDefined(normalizeUrl(ValueOf(c.requestUrl)))
    /\ IsDefined(normalizeUrl(ValueOf(c.exportTraceUrl)))
    /\ \E rest \in SeqsUpTo({"/", "x", "v"}, 3) :
          ValueOf(normalizeUrl(ValueOf(c.requestUrl)))
              = ValueOf(normalizeUrl(ValueOf(c.exportTraceUrl))) \o rest

\* C24: resolveOutboundSpanParentContext returns an unsuppressed context
\* unchanged; a suppressed context unchanged, and so still suppressed, when the
\* normalized request URL starts with the configured exporter trace URL; and
\* the unsuppressed ROOT_CONTEXT for a suppressed context and any other URL.
C24_ParentContext ==
    (call.op = "resolveOutboundSpanParentContext" /\ ret # {}) =>
        /\ ~call.activeContext.suppressed => ValueOf(ret) = call.activeContext
        /\ (call.activeContext.suppressed /\ ToExporter(call)) =>
              (ValueOf(ret) = call.activeContext /\ ValueOf(ret).suppressed)
        /\ (call.activeContext.suppressed /\ ~ToExporter(call)) =>
              (ValueOf(ret) = ROOT_CONTEXT /\ ~ValueOf(ret).suppressed)

\* A suppressed trace context and the exporter's URL in another spelling of
\* the host: the context stays.
C24_Witness ==
    /\ call.op = "resolveOutboundSpanParentContext" /\ ret # {}
    /\ call.activeContext = [id |-> "trace", suppressed |-> TRUE]
    /\ call.requestUrl = Some(HTTPS \o <<"P", "/", "v">>)
    /\ call.exportTraceUrl = Some(HTTPS_P_V)
    /\ ValueOf(ret) = call.activeContext

----------------------------------------------------------------------------
(* Headers from span attributes: extractHeadersFromAttributes of           *)
(* packages/core/src/filtering/header-filter.ts                            *)
(* Here the attributes of a span are the sequence of their entries         *)
(* [key, value] in for...in order, and a key is a string in which the      *)
(* literal "http.request.header" or "http.response.header" is one symbol:  *)
(* "http.request.header.0" is <<"http.request.header", ".", "0">>.         *)

REQUEST_HEADER == "http.request.header"
RESPONSE_HEADER == "http.response.header"

NumberValue(n) == [tag |-> "number", items |-> <<n>>]

\* attributes[key]
attributeAt(attributes, key) ==
    IF \E i \in 1..Len(attributes) : attributes[i].key = key
    THEN attributes[CHOOSE i \in 1..Len(attributes) : attributes[i].key = key].value
    ELSE UndefinedValue

IsDigit(c) == \E i \in 1..Len(DIGITS) : DIGITS[i] = c

\* parseInt(s, 10) for a string of digits.
RECURSIVE parseInt(_)
parseInt(s) ==
    IF s = <<>> THEN 0
    ELSE 10 * parseInt(SubSeq(s, 1, Len(s) - 1))
           + (CHOOSE d \in 0..9 : DIGITS[d + 1] = s[Len(s)])

\* String(value) for a string or a number.
String(value) ==
    IF value.tag = "number" THEN NumberToString(value.items[1]) ELSE value.items[1]

\* headerKeys.sort((a, b) => a - b)
RECURSIVE sort(_)
sort(keys) ==
    IF keys = <<>> THEN <<>>
    ELSE LET least == CHOOSE i \in 1..Len(keys) : \A j \in 1..Len(keys) : keys[i] <= keys[j]
         IN  <<keys[least]>>
               \o sort([j \in 1..(Len(keys) - 1) |-> IF j < least THEN keys[j] ELSE keys[j + 1]])

\* The merge with the stored name compared as it is written.
AddHeader_caseSensitive(headerMap, headerName, headerValue) ==
    IF \E i \in 1..Len(headerMap) : headerMap[i].name = headerName
    THEN LET at == CHOOSE i \in 1..Len(headerMap) : headerMap[i].name = headerName
         IN  [headerMap EXCEPT ![at].value = ArrayValue(Append(@.items, headerValue))]
    ELSE Append(headerMap, [name |-> headerName, value |-> StringValue(headerValue)])

\* One occurrence of a header: appended to the value stored under the first
\* key that is the same name in lower case, or stored under its own name.
\* headerMap is the sequence of the object's entries, in insertion order.
AddHeader(headerMap, headerName, headerValue) ==
    LET normalizedName == toLowerCase(headerName)
        found == {i \in 1..Len(headerMap) : toLowerCase(headerMap[i].name) = normalizedName}
    IN  IF found # {}
        THEN LET existingKey == CHOOSE i \in found : \A j \in found : i <= j
             IN  [headerMap EXCEPT ![existingKey].value =
                     ArrayValue(Append(@.items, headerValue))]
        ELSE Append(headerMap, [name |-> headerName, value |-> StringValue(headerValue)])

\* The loop over the sorted numeric keys, two at a time, from position i.
RECURSIVE FlatHeaders(_, _, _, _, _)
FlatHeaders(attributes, headerPrefix, headerKeys, i, headerMap) ==
    IF i > Len(headerKeys) THEN headerMap
    ELSE IF i + 1 > Len(headerKeys)
    THEN FlatHeaders(attributes, headerPrefix, headerKeys, i + 2, headerMap)
    ELSE LET nameKey == <<headerPrefix, ".">> \o NumberToString(headerKeys[i])
             valueKey == <<headerPrefix, ".">> \o NumberToString(headerKeys[i + 1])
             headerName == attributeAt(attributes, nameKey)
             headerValue == attributeAt(attributes, valueKey)
         IN  FlatHeaders(attributes, headerPrefix, headerKeys, i + 2,
                 IF headerName.tag # "undefined" /\ String(headerName) # <<>>
                       /\ headerValue.tag # "undefined"
                 THEN AddHeader(headerMap, String(headerName), String(headerValue))
                 ELSE headerMap)

\* The loop over the direct key-value headers.
RECURSIVE DirectHeaders(_, _, _)
DirectHeaders(attributes, directKeyValueHeaders, headerMap) ==
    IF directKeyValueHeaders = <<>> THEN headerMap
    ELSE LET headerValue == attributeAt(attributes, Head(directKeyValueHeaders).key)
         IN  DirectHeaders(attributes, Tail(directKeyValueHeaders),
                 IF headerValue.tag # "undefined"
                 THEN AddHeader(headerMap, Head(directKeyValueHeaders).headerName,
                                String(headerValue))
                 ELSE headerMap)

\* extractHeadersFromAttributes: the header map as the sequence of its
\* entries [name, value], or undefined for null.
extractHeadersFromAttributes(attributes, headerPrefix) ==
    LET prefixPattern == <<headerPrefix, ".">>
        matching == SelectSeq(attributes, LAMBDA e : startsWith(e.key, prefixPattern))
        isNumeric(e) == Len(e.key) > 2 /\ \A k \in 3..Len(e.key) : IsDigit(e.key[k])
        numeric == SelectSeq(matching, isNumeric)
        headerKeys == [k \in 1..Len(numeric) |-> parseInt(slice(numeric[k].key, 2))]
        named == SelectSeq(matching, LAMBDA e : ~isNumeric(e) /\ Len(e.key) > 2)
        directKeyValueHeaders ==
            [k \in 1..Len(named) |-> [key |-> named[k].key, headerName |-> slice(named[k].key, 2)]]
        headerMap == DirectHeaders(attributes, directKeyValueHeaders,
                         FlatHeaders(attributes, headerPrefix, sort(headerKeys), 1, <<>>))
    IN  IF Len(headerMap) > 0 THEN Some(headerMap) ELSE Undefined

MaxFlat == 4
MaxDirect == 2

\* The strings of a flat array, names and values alike, the names of the
\* direct entries and their values.
FlatStrings == {<<"a">>, <<"A">>}
DirectNames == {<<"a">>, <<"A">>, <<"b">>}
DirectValues == {StringValue(<<"y">>), NumberValue(30), UndefinedValue}

\* A flat array of names and values, as the keys 0, 1, ... of the prefix.
FlatAttributes(raw) ==
    [k \in 1..Len(raw) |->
        [key |-> <<REQUEST_HEADER, ".">> \o NumberToString(k - 1), value |-> StringValue(raw[k])]]

DirectAttributes ==
    {d \in SeqsUpTo([key : {<<REQUEST_HEADER, ".">> \o n : n \in DirectNames},
                     value : DirectValues], MaxDirect) :
        \A i, j \in 1..Len(d) : i # j => d[i].key # d[j].key}

\* Attributes that are no request header.
OtherAttributes ==
    <<[key |-> <<RESPONSE_HEADER, ".", "a">>, value |-> StringValue(<<"r">>)],
      [key |-> <<REQUEST_HEADER>>, value |-> StringValue(<<"o">>)],
      [key |-> <<REQUEST_HEADER, ".">>, value |-> StringValue(<<"e">>)]>>

HeaderAttributeSets ==
    {FlatAttributes(raw) \o d \o OtherAttributes :
        raw \in SeqsUpTo(FlatStrings, MaxFlat), d \in DirectAttributes}
      \cup {d \o OtherAttributes \o FlatAttributes(raw) :
        raw \in SeqsUpTo(FlatStrings, MaxFlat), d \in DirectAttributes}

InitExtractHeaders ==
    /\ call \in [op : {"extractHeadersFromAttributes"}, attributes : HeaderAttributeSets,
                 headerPrefix : {REQUEST_HEADER}]
    /\ ret = {} /\ NoTracker

CallExtractHeadersFromAttributes ==
    /\ call.op = "extractHeadersFromAttributes" /\ ret = {}
    /\ ret' = {extractHeadersFromAttributes(call.attributes, call.headerPrefix)}
    /\ UNCHANGED call /\ UNCHANGED trackerVars

SpecExtractHeaders == InitExtractHeaders /\ [][CallExtractHeadersFromAttributes]_vars

----------------------------------------------------------------------------
(* C26: names that differ by case only are one header *)

\* The occurrences of headers in the attributes, in the order in which the
\* function meets them: the name/value pairs of the flat array by index, then
\* the direct entries that have a value, in attribute order.
Occurrences(attributes) ==
    LET isFlat(e) == Len(e.key) = 3 /\ e.key[1] = REQUEST_HEADER /\ IsDigit(e.key[3])
        isDirect(e) == Len(e.key) = 3 /\ e.key[1] = REQUEST_HEADER /\ ~IsDigit(e.key[3])
                         /\ e.value.tag # "undefined"
        flat == SelectSeq(attributes, isFlat)
        direct == SelectSeq(attributes, isDirect)
    IN  [k \in 1..(Len(flat) \div 2) |->
            [name |-> flat[2 * k - 1].value.items[1], value |-> flat[2 * k].value.items[1]]]
          \o [k \in 1..Len(direct) |->
                [name |-> <<direct[k].key[3]>>,
                 value |-> IF direct[k].value.tag = "number" THEN <<"3", "0">>
                           ELSE direct[k].value.items[1]]]

\* The values of the occurrences of a name, whatever its case, in order.
ValuesOf(occurrences, name) ==
    LET same == SelectSeq(occurrences, LAMBDA o : toLowerCase(o.name) = toLowerCase(name))
    IN  [k \in 1..Len(same) |-> same[k].value]

TheHeaders == IF IsDefined(ValueOf(ret)) THEN ValueOf(ValueOf(ret)) ELSE <<>>

\* C26: extractHeadersFromAttributes stores every header under one key, the
\* name as its first occurrence spells it, whatever the case of the later
\* ones; a header that occurs once has its value as a string, one that occurs
\* more often the list of its values in the order of the occurrences; every
\* occurrence is in the result and no name is under two keys.
C26_MergedByCase ==
    (call.op = "extractHeadersFromAttributes" /\ ret # {}) =>
        LET occurrences == Occurrences(call.attributes)
        IN  /\ \A i, j \in 1..Len(TheHeaders) :
                  i # j => toLowerCase(TheHeaders[i].name) # toLowerCase(TheHeaders[j].name)
            /\ \A k \in 1..Len(occurrences) :
                  \E i \in 1..Len(TheHeaders) :
                      toLowerCase(TheHeaders[i].name) = toLowerCase(occurrences[k].name)
            /\ \A i \in 1..Len(TheHeaders) :
                  LET values == ValuesOf(occurrences, TheHeaders[i].name)
                      first == CHOOSE k \in 1..Len(occurrences) :
                                  /\ toLowerCase(occurrences[k].name) = toLowerCase(TheHeaders[i].name)
                                  /\ \A j \in 1..(k - 1) :
                                        toLowerCase(occurrences[j].name) # toLowerCase(TheHeaders[i].name)
                  IN  /\ Len(values) > 0
                      /\ TheHeaders[i].name = occurrences[first].name
                      /\ TheHeaders[i].value =
                            IF Len(values) = 1 THEN StringValue(values[1])
                            ELSE ArrayValue(values)

\* "A" then "a" in the flat array and "a" again as a direct entry: one key
\* "A" with the three values in order.
C26_Witness ==
    /\ call.op = "extractHeadersFromAttributes" /\ ret # {}
    /\ Len(TheHeaders) = 1
    /\ TheHeaders[1].name = <<"A">>
    /\ TheHeaders[1].value.tag = "array"
    /\ Len(TheHeaders[1].value.items) = 3
    /\ Len(Occurrences(call.attributes)) = 3

----------------------------------------------------------------------------
(* The header half of extractSpanPayload:                                  *)
(* packages/core/src/utils/span-extractor.ts                               *)
(* A span of this part carries its header attributes apart, as the entries *)
(* span.headerAttributes; no span carries an object-valued                 *)
(* http.request.header attribute.                                          *)

headersListOf_merged(domainRule, field, globalList) ==
    IF IsDefined(domainRule) /\ IsDefined(ValueOf(domainRule)[field])
    THEN Some(ValueOf(ValueOf(domainRule)[field]) \o OrElse(globalList, <<>>))
    ELSE globalList

\* domainRule?.headersAllowList ?? globalHeadersAllowList, and the same for
\* headersDenyList.
headersListOf(domainRule, field, globalList) ==
    IF IsDefined(domainRule) /\ IsDefined(ValueOf(domainRule)[field])
    THEN ValueOf(domainRule)[field]
    ELSE globalList

\* An attribute value that is an object: the sequence of its entries
\* [name, value].
RecordValue(headers) == [tag |-> "record", items |-> headers]

\* The type guard of extractSpanPayload: an object, not an array, whose values
\* are strings, arrays of strings or undefined.
isHeadersRecord(value) ==
    /\ value.tag = "record"
    /\ \A i \in 1..Len(value.items) :
          value.items[i].value.tag \in {"string", "array", "undefined"}

\* requestHeaders / responseHeaders of extractSpanPayload: the filtered
\* headers of one side, as entries; none when the span has no such header.
payloadHeaders(span, domainAllowList, globalHeadersAllowList, globalHeadersDenyList, headerRedaction, headerPrefix) ==
    LET url == UrlAttribute(span.attributes)
        domainRule == IF url # <<>> THEN getDomainRule(url, domainAllowList) ELSE Undefined
        headersAllowList == headersListOf(domainRule, "headersAllowList", globalHeadersAllowList)
        headersDenyList == headersListOf(domainRule, "headersDenyList", globalHeadersDenyList)
        flatHeaders == extractHeadersFromAttributes(span.headerAttributes, headerPrefix)
        objectHeaders == attributeAt(span.headerAttributes, <<headerPrefix>>)
    IN  IF IsDefined(flatHeaders)
        THEN filterHeaders(ValueOf(flatHeaders), headersAllowList, headersDenyList,
                           headerRedaction)
        ELSE IF isHeadersRecord(objectHeaders)
        THEN filterHeaders(objectHeaders.items, headersAllowList, headersDenyList,
                           headerRedaction)
        ELSE <<>>

\* Spans with the request headers a, b and c, to the host a, to the host b,
\* and without a URL.
ScopeHeaderAttributes ==
    <<[key |-> <<REQUEST_HEADER, ".", "a">>, value |-> StringValue(<<"y">>)],
      [key |-> <<REQUEST_HEADER, ".", "b">>, value |-> StringValue(<<"y">>)],
      [key |-> <<REQUEST_HEADER, ".", "c">>, value |-> StringValue(<<"y">>)]>>

ScopeSpans ==
    {[attributes |-> a, headerAttributes |-> h] :
        a \in {("http.url" :> URL_A), ("url.full" :> URL_B), <<>>},
        h \in {ScopeHeaderAttributes, SubSeq(ScopeHeaderAttributes, 1, 2)}}

\* Allow lists holding one rule for the host a.
ScopeRuleAllowLists == {Undefined, Some(<<>>), Some(<<<<"A">>>>), Some(<<<<"a">>, <<"b">>>>)}
ScopeRuleDenyLists == {Undefined, Some(<<>>), Some(<<<<"a">>>>)}
ScopeDomainAllowLists ==
    {Undefined}
      \cup {Some(<<DomainRule(<<"a">>, Undefined, allow, deny, Undefined, Undefined)>>) :
              allow \in ScopeRuleAllowLists, deny \in ScopeRuleDenyLists}

ScopeGlobalAllowLists == {Undefined, Some(<<<<"b">>>>), Some(<<<<"b">>, <<"c">>>>)}
ScopeGlobalDenyLists == {Undefined, Some(<<<<"B">>>>), Some(<<<<"c">>>>)}

ScopeRedactions == {Undefined, Some(PartialRedactionConfig({}, {}, {}, {}, {FALSE}))}

InitHeaderScope ==
    /\ call \in [op : {"extractSpanPayload"}, span : ScopeSpans,
                 domainAllowList : ScopeDomainAllowLists,
                 globalHeadersAllowList : ScopeGlobalAllowLists,
                 globalHeadersDenyList : ScopeGlobalDenyLists,
                 headerRedaction : ScopeRedactions]
    /\ ret = {} /\ NoTracker

CallPayloadHeaders ==
    /\ call.op = "extractSpanPayload" /\ ret = {}
    /\ ret' = {payloadHeaders(call.span, call.domainAllowList,
                              call.globalHeadersAllowList, call.globalHeadersDenyList,
                              call.headerRedaction, REQUEST_HEADER)}
    /\ UNCHANGED call /\ UNCHANGED trackerVars

SpecHeaderScope == InitHeaderScope /\ [][CallPayloadHeaders]_vars

----------------------------------------------------------------------------
(* C25: the scope of the header lists *)

\* The rule of the allow list that is for the span's host: the one rule there
\* is, when the span goes to the host a.
ScopeRule(c) ==
    IF IsDefined(c.domainAllowList) /\ "http.url" \in DOMAIN c.span.attributes
    THEN Some(ValueOf(c.domainAllowList)[1])
    ELSE Undefined

\* The list in force: the rule's when the rule defines it, else the global one.
ListInForce(rule, field, globalList) ==
    IF IsDefined(rule) /\ ValueOf(rule)[field] # Undefined THEN ValueOf(rule)[field]
    ELSE globalList

----------------------------------------------------------------------------
(* C27: GenAI spans *)

GenAiAttributeKeys == {"gen_ai.system", "gen_ai.operation.name"}

\* C27: a CLIENT span that carries the GenAI attributes gen_ai.system and
\* gen_ai.operation.name and no HTTP method, URL or server.address attribute
\* is eligible.
C27_GenAiEligible ==
    (/\ call.op = "isSpanEligible" /\ ret # {}
     /\ call.span.kind = "CLIENT"
     /\ GenAiAttributeKeys \subseteq DOMAIN call.span.attributes
     /\ HttpAttributeKeys \cap DOMAIN call.span.attributes = {})
        => ValueOf(ret) = TRUE

----------------------------------------------------------------------------
(* C28: the URL the extractor resolves the domain rule from *)

\* The first rule of the call's allow list that is for the host a, if any.
RuleForHostA(c) ==
    IF ~IsDefined(c.domainAllowList) THEN Undefined
    ELSE LET rules == ValueOf(c.domainAllowList)
             at == {i \in 1..Len(rules) : rules[i].domain \in {<<"a">>, <<".", "a">>}}
         IN  IF at = {} THEN Undefined
             ELSE Some(rules[CHOOSE i \in at : \A j \in at : i <= j])

\* C28: for a span that has server.address and neither http.url nor url.full,
\* extractSpanPayload resolves the domain rule from https://<server.address>:
\* a rule for that host that sets captureRequestBody keeps the span's request
\* body in the payload, whatever the global setting.
C28_ServerAddressRule ==
    (/\ call.op = "extractSpanPayload" /\ ret # {}
     /\ DOMAIN call.span.attributes \cap {"http.url", "url.full"} = {}
     /\ "server.address" \in DOMAIN call.span.attributes
     /\ HTTP_REQUEST_BODY \in DOMAIN call.span.attributes
     /\ IsDefined(RuleForHostA(call))
     /\ ValueOf(RuleForHostA(call)).captureRequestBody = Some(TRUE))
        => HTTP_REQUEST_BODY \in DOMAIN ValueOf(ret).attributes

----------------------------------------------------------------------------
(* Propagated attributes: packages/core/src/utils/context-extractor.ts     *)
(* A context is the record of the values under the PingOps context keys,   *)
(* each optional and of any type; the result is the attribute map, its     *)
(* keys written <<"pingops.user_id">> and <<"pingops.metadata", ".", key>>.*)

ObjectValue(entries) == [tag |-> "object", items |-> entries]

\* The loop over Object.entries(metadata): the string-valued entries.
MetadataAttributes(metadata) ==
    IF IsDefined(metadata) /\ ValueOf(metadata).tag = "object"
    THEN LET entries == SelectSeq(ValueOf(metadata).items, LAMBDA e : e.value.tag = "string")
         IN  [k \in {<<"pingops.metadata", ".", entries[i].key>> : i \in 1..Len(entries)} |->
                 (CHOOSE e \in {entries[i] : i \in 1..Len(entries)} :
                     k = <<"pingops.metadata", ".", e.key>>).value]
    ELSE <<>>

\* One attribute when the value has the wanted type, none otherwise.
AttributeIf(value, tag, key) ==
    IF IsDefined(value) /\ ValueOf(value).tag = tag THEN (key :> ValueOf(value)) ELSE <<>>

getPropagatedAttributesFromContext(parentContext) ==
    AttributeIf(parentContext.PINGOPS_USER_ID, "string", <<"pingops.user_id">>)
      @@ AttributeIf(parentContext.PINGOPS_SESSION_ID, "string", <<"pingops.session_id">>)
      @@ AttributeIf(parentContext.PINGOPS_TAGS, "array", <<"pingops.tags">>)
      @@ MetadataAttributes(parentContext.PINGOPS_METADATA)

\* Values of the right type, of a wrong type, and none.
ContextStrings == {Undefined, Some(StringValue(<<"u">>)), Some(NumberValue(123))}
ContextTags ==
    {Undefined, Some(ArrayValue(<<<<"a">>, <<"b">>>>)), Some(StringValue(<<"n">>))}
ContextMetadata ==
    {Undefined,
     Some(ObjectValue(<<[key |-> "valid", value |-> StringValue(<<"o">>)],
                        [key |-> "invalid", value |-> NumberValue(123)]>>)),
     Some(ObjectValue(<<>>)),
     Some(ArrayValue(<<<<"a">>>>))}

PropagationContexts ==
    [PINGOPS_TRACE_ID : ContextStrings, PINGOPS_USER_ID : ContextStrings,
     PINGOPS_SESSION_ID : ContextStrings, PINGOPS_TAGS : ContextTags,
     PINGOPS_METADATA : ContextMetadata]

InitPropagated ==
    /\ call \in [op : {"getPropagatedAttributesFromContext"},
                 parentContext : PropagationContexts]
    /\ ret = {} /\ NoTracker

CallGetPropagatedAttributesFromContext ==
    /\ call.op = "getPropagatedAttributesFromContext" /\ ret = {}
    /\ ret' = {getPropagatedAttributesFromContext(call.parentContext)}
    /\ UNCHANGED call /\ UNCHANGED trackerVars

SpecPropagated == InitPropagated /\ [][CallGetPropagatedAttributesFromContext]_vars

----------------------------------------------------------------------------
(* C29: the propagated attributes *)

\* The value under a context key is of the given type.
HasType(value, tag) == IsDefined(value) /\ ValueOf(value).tag = tag

\* The attribute is present with the context's value exactly when that value
\* is of the given type.
PropagatedIf(attributes, key, value, tag) ==
    /\ key \in DOMAIN attributes <=> HasType(value, tag)
    /\ key \in DOMAIN attributes => attributes[key] = ValueOf(value)

\* The metadata attributes are those of the string-valued entries.
PropagatedMetadata(attributes, metadata) ==
    LET entries == IF HasType(metadata, "object") THEN ValueOf(metadata).items ELSE <<>>
    IN  /\ \A i \in 1..Len(entries) :
              LET key == <<"pingops.metadata", ".", entries[i].key>>
              IN  /\ key \in DOMAIN attributes <=> entries[i].value.tag = "string"
                  /\ key \in DOMAIN attributes => attributes[key] = entries[i].value
        /\ \A key \in DOMAIN attributes :
              Len(key) = 3 => \E i \in 1..Len(entries) : key[3] = entries[i].key

\* C29: getPropagatedAttributesFromContext returns exactly pingops.trace_id
\* when the context's trace id is a string, pingops.user_id when the user id is
\* a string, pingops.session_id when the session id is a string, pingops.tags
\* when the tags are an array, and pingops.metadata.<key> for every
\* string-valued entry of the metadata; a value of another type gives no
\* attribute.
C29_PropagatedAttributes ==
    (call.op = "getPropagatedAttributesFromContext" /\ ret # {}) =>
        LET attributes == ValueOf(ret)
            ctx == call.parentContext
        IN  /\ PropagatedIf(attributes, <<"pingops.trace_id">>, ctx.PINGOPS_TRACE_ID, "string")
            /\ PropagatedIf(attributes, <<"pingops.user_id">>, ctx.PINGOPS_USER_ID, "string")
            /\ PropagatedIf(attributes, <<"pingops.session_id">>, ctx.PINGOPS_SESSION_ID, "string")
            /\ PropagatedIf(attributes, <<"pingops.tags">>, ctx.PINGOPS_TAGS, "array")
            /\ PropagatedMetadata(attributes, ctx.PINGOPS_METADATA)

\* What the function does return: the same without pingops.trace_id, which it
\* never sets.
C29_WithoutTraceId ==
    (call.op = "getPropagatedAttributesFromContext" /\ ret # {}) =>
        LET attributes == ValueOf(ret)
            ctx == call.parentContext
        IN  /\ <<"pingops.trace_id">> \notin DOMAIN attributes
            /\ PropagatedIf(attributes, <<"pingops.user_id">>, ctx.PINGOPS_USER_ID, "string")
            /\ PropagatedIf(attributes, <<"pingops.session_id">>, ctx.PINGOPS_SESSION_ID, "string")
            /\ PropagatedIf(attributes, <<"pingops.tags">>, ctx.PINGOPS_TAGS, "array")
            /\ PropagatedMetadata(attributes, ctx.PINGOPS_METADATA)

----------------------------------------------------------------------------
(* Rule selection: getDomainRule called on its own *)

SelectionUrls ==
    {HTTPS \o <<"a", "/", "x">>, HTTPS \o <<"a", "/", "y">>,
     HTTPS \o <<"b", ".", "a", "/", "x">>, HTTPS \o <<"b", "/", "x">>}
SelectionRules ==
    {DomainRule(d, p, Undefined, Undefined, q, Undefined) :
        d \in {<<"a">>, <<".", "a">>, <<"b">>},
        p \in {Undefined, Some(<<<<"/", "x">>>>)},
        q \in {Some(TRUE), Some(FALSE)}}

InitSelection ==
    /\ call \in [op : {"getDomainRule"}, url : SelectionUrls,
                 domainAllowList : OptionalLists(SelectionRules)]
    /\ ret = {} /\ NoTracker

CallGetDomainRule ==
    /\ call.op = "getDomainRule" /\ ret = {}
    /\ ret' = {getDomainRule(call.url, call.domainAllowList)}
    /\ UNCHANGED call /\ UNCHANGED trackerVars

SpecSelection == InitSelection /\ [][CallGetDomainRule]_vars

----------------------------------------------------------------------------
(* C30: rule selection and the domain/path matcher *)

\* The rule accepts the URL under domainMatches and pathMatches.
MatcherAccepts(url, rule) ==
    /\ domainMatches(extractDomain(url), rule.domain)
    /\ pathMatches(extractPath(url), rule.paths)

\* The first rule in list order that the matcher accepts.
RECURSIVE FirstAccepted(_, _)
FirstAccepted(url, rules) ==
    IF rules = <<>> THEN Undefined
    ELSE IF MatcherAccepts(url, Head(rules)) THEN Some(Head(rules))
    ELSE FirstAccepted(url, Tail(rules))

\* C30: the rule getDomainRule selects is the first rule in list order whose
\* domain matches under domainMatches and whose path restriction, if any,
\* matches the URL's path; none is selected when no rule matches so.
C30_SelectionAgreesWithMatcher ==
    (call.op = "getDomainRule" /\ ret # {}) =>
        ValueOf(ret) = (IF IsDefined(call.domainAllowList)
                        THEN FirstAccepted(call.url, ValueOf(call.domainAllowList))
                        ELSE Undefined)

----------------------------------------------------------------------------
(* The header attributes of the payload: span-extractor.ts, lines 182-203 *)

\* extractedAttributes[key] = value, on the entries in insertion order.
setEntry(attributes, key, value) ==
    IF \E i \in 1..Len(attributes) : attributes[i].key = key
    THEN [i \in 1..Len(attributes) |->
             IF attributes[i].key = key THEN [key |-> key, value |-> value]
             ELSE attributes[i]]
    ELSE Append(attributes, [key |-> key, value |-> value])

\* The header-bearing attributes of the payload: the span's, without the
\* indexed and the dotted keys, and with the filtered headers of a side written
\* under its prefix when there are any.
payloadHeaderAttributes(span, domainAllowList, globalHeadersAllowList, globalHeadersDenyList, headerRedaction) ==
    LET requestHeaders == payloadHeaders(span, domainAllowList, globalHeadersAllowList,
                              globalHeadersDenyList, headerRedaction, REQUEST_HEADER)
        responseHeaders == payloadHeaders(span, domainAllowList, globalHeadersAllowList,
                               globalHeadersDenyList, headerRedaction, RESPONSE_HEADER)
        kept == SelectSeq(span.headerAttributes,
                    LAMBDA e : /\ ~startsWith(e.key, <<REQUEST_HEADER, ".">>)
                               /\ ~startsWith(e.key, <<RESPONSE_HEADER, ".">>))
        withRequest == IF Len(requestHeaders) > 0
                       THEN setEntry(kept, <<REQUEST_HEADER>>, RecordValue(requestHeaders))
                       ELSE kept
    IN  IF Len(responseHeaders) > 0
        THEN setEntry(withRequest, <<RESPONSE_HEADER>>, RecordValue(responseHeaders))
        ELSE withRequest

\* Spans that carry the request headers in object form, in dotted form, in
\* indexed form, in several forms or in none, and the response headers in
\* object form or not at all.
PayloadObjectForms(prefix) ==
    {<<>>,
     <<[key |-> <<prefix>>,
        value |-> RecordValue(<<[name |-> <<"a">>, value |-> StringValue(<<"y">>)]>>)]>>,
     <<[key |-> <<prefix>>,
        value |-> RecordValue(<<[name |-> <<"a">>, value |-> StringValue(<<"y">>)],
                                [name |-> <<"b">>, value |-> StringValue(<<"y">>)]>>)]>>}
PayloadKeyedForms ==
    {<<>>,
     <<[key |-> <<REQUEST_HEADER, ".", "a">>, value |-> StringValue(<<"y">>)]>>,
     <<[key |-> <<REQUEST_HEADER, ".", "a">>, value |-> StringValue(<<"y">>)],
       [key |-> <<REQUEST_HEADER, ".", "b">>, value |-> StringValue(<<"y">>)]>>,
     <<[key |-> <<REQUEST_HEADER, ".", "0">>, value |-> StringValue(<<"b">>)],
       [key |-> <<REQUEST_HEADER, ".", "1">>, value |-> StringValue(<<"y">>)]>>}
PayloadSpans ==
    {[attributes |-> a, headerAttributes |-> keyed \o object \o response] :
        a \in {("http.url" :> URL_A), <<>>},
        keyed \in PayloadKeyedForms,
        object \in PayloadObjectForms(REQUEST_HEADER),
        response \in {<<>>} \cup {o \in PayloadObjectForms(RESPONSE_HEADER) :
                                    o # <<>> /\ Len(o[1].value.items) = 1}}

PayloadDomainAllowLists ==
    {Undefined,
     Some(<<DomainRule(<<"a">>, Undefined, Undefined, Some(<<<<"b">>>>), Undefined, Undefined)>>)}
PayloadGlobalAllowLists == {Undefined, Some(<<<<"a">>>>), Some(<<<<"c">>>>)}
PayloadGlobalDenyLists == {Undefined, Some(<<<<"A">>>>), Some(<<<<"a">>, <<"b">>>>)}

InitPayloadHeaders ==
    /\ call \in [op : {"extractSpanPayload.headers"}, span : PayloadSpans,
                 domainAllowList : PayloadDomainAllowLists,
                 globalHeadersAllowList : PayloadGlobalAllowLists,
                 globalHeadersDenyList : PayloadGlobalDenyLists,
                 headerRedaction : {Undefined}]
    /\ ret = {} /\ NoTracker

CallPayloadHeaderAttributes ==
    /\ call.op = "extractSpanPayload.headers" /\ ret = {}
    /\ ret' = {payloadHeaderAttributes(call.span, call.domainAllowList,
                                       call.globalHeadersAllowList,
                                       call.globalHeadersDenyList, call.headerRedaction)}
    /\ UNCHANGED call /\ UNCHANGED trackerVars

SpecPayloadHeaders == InitPayloadHeaders /\ [][CallPayloadHeaderAttributes]_vars

----------------------------------------------------------------------------
(* C31: no denied header in the payload *)

\* The header names an attribute entry of the payload shows: the name of a
\* dotted key, the names inside an object, the name an indexed key holds.
NamesShown(entry) ==
    IF Len(entry.key) = 1
    THEN IF entry.value.tag = "record"
         THEN {entry.value.items[i].name : i \in 1..Len(entry.value.items)}
         ELSE {}
    ELSE IF \A k \in 3..Len(entry.key) : IsDigit(entry.key[k])
    THEN {entry.value.items[1]}
    ELSE {slice(entry.key, 2)}

\* C31: in the attributes of every payload of extractSpanPayload, no header
\* on the deny list in force and no header outside a non-empty allow list in
\* force is shown under http.request.header or http.response.header, in the
\* indexed, the dotted or the object form, also when the span carries the
\* headers in object form and filtering leaves none.
C31_NoDeniedHeaderInPayload ==
    (call.op = "extractSpanPayload.headers" /\ ret # {}) =>
        \A i \in 1..Len(ValueOf(ret)) :
            \A name \in NamesShown(ValueOf(ret)[i]) :
                SurvivesLists(name,
                    ListInForce(ScopeRule(call), "headersAllowList",
                                call.globalHeadersAllowList),
                    ListInForce(ScopeRule(call), "headersDenyList",
                                call.globalHeadersDenyList))

\* What holds: the payload has no indexed and no dotted header key, and a side
\* whose filtered headers are not empty shows only headers that passed the
\* lists.
C31_FilteredWhenNotEmpty ==
    (call.op = "extractSpanPayload.headers" /\ ret # {}) =>
        \A i \in 1..Len(ValueOf(ret)) :
            LET entry == ValueOf(ret)[i]
            IN  /\ Len(entry.key) = 1
                /\ payloadHeaders(call.span, call.domainAllowList,
                                  call.globalHeadersAllowList, call.globalHeadersDenyList,
                                  call.headerRedaction, entry.key[1]) # <<>>
                     => \A name \in NamesShown(entry) :
                           SurvivesLists(name,
                               ListInForce(ScopeRule(call), "headersAllowList",
                                           call.globalHeadersAllowList),
                               ListInForce(ScopeRule(call), "headersDenyList",
                                           call.globalHeadersDenyList))

----------------------------------------------------------------------------
(* The headers the node http instrumentation records, and their export:     *)
(* captureRequestHeaders / captureResponseHeaders of http.ts, then the      *)
(* attributes createFilteredSpan hands to the exporter.                     *)

PINGOPS_REQUEST_HEADER == "pingops.http.request.header"
PINGOPS_RESPONSE_HEADER == "pingops.http.response.header"

\* value.join(",")
RECURSIVE join(_)
join(items) ==
    IF items = <<>> THEN <<>>
    ELSE IF Len(items) = 1 THEN items[1]
    ELSE items[1] \o <<",">> \o join(Tail(items))

\* The loop of captureRequestHeaders / captureResponseHeaders: one attribute
\* `<prefix>.<name in lower case>` for every header with a value.
RECURSIVE captureHeaders(_, _, _)
captureHeaders(attributes, headers, prefix) ==
    IF headers = <<>> THEN attributes
    ELSE captureHeaders(
             IF Head(headers).value.tag # "undefined"
             THEN setEntry(attributes, <<prefix, ".">> \o toLowerCase(Head(headers).name),
                      StringValue(IF Head(headers).value.tag = "array"
                                  THEN join(Head(headers).value.items)
                                  ELSE String(Head(headers).value)))
             ELSE attributes,
             Tail(headers), prefix)

\* The headers of a message: Authorization and a, each with a string, a list
\* or no value.
MessageHeaderNames == {H_Authorization, <<"a">>}
MessageHeaderValues ==
    {StringValue(V_Bearer), ArrayValue(<<<<"y">>, <<"z">>>>), UndefinedValue}
MessageHeaders ==
    {h \in SeqsUpTo([name : MessageHeaderNames, value : MessageHeaderValues], 2) :
        Len(h) = 2 => h[1].name # h[2].name}

InitHttpHeaders ==
    /\ call \in [op : {"http.requestHook", "http.responseHook"},
                 headers : MessageHeaders,
                 globalHeadersAllowList : {Undefined, Some(<<<<"a">>>>)},
                 globalHeadersDenyList : {Undefined, Some(<<H_authorization>>)},
                 headerRedaction : ScopeRedactions]
    /\ ret = {} /\ NoTracker

\* The request hook records the request headers on the span.
HookCaptureRequestHeaders ==
    /\ call.op = "http.requestHook" /\ ret = {}
    /\ ret' = {[stage |-> "span",
                attributes |-> captureHeaders(<<>>, call.headers, PINGOPS_REQUEST_HEADER)]}
    /\ UNCHANGED call /\ UNCHANGED trackerVars

\* The response hook records the response headers on the span.
HookCaptureResponseHeaders ==
    /\ call.op = "http.responseHook" /\ ret = {}
    /\ ret' = {[stage |-> "span",
                attributes |-> captureHeaders(<<>>, call.headers, PINGOPS_RESPONSE_HEADER)]}
    /\ UNCHANGED call /\ UNCHANGED trackerVars

\* onEnd: createFilteredSpan replaces the attributes by those of the payload.
CreateFilteredSpan ==
    /\ ret # {} /\ call.op \in {"http.requestHook", "http.responseHook"}
    /\ ValueOf(ret).stage = "span"
    /\ ret' = {[stage |-> "exported",
                attributes |->
                    payloadHeaderAttributes(
                        [attributes |-> <<>>, headerAttributes |-> ValueOf(ret).attributes],
                        Undefined, call.globalHeadersAllowList,
                        call.globalHeadersDenyList, call.headerRedaction)]}
    /\ UNCHANGED call /\ UNCHANGED trackerVars

NextHttpHeaders ==
    \/ HookCaptureRequestHeaders
    \/ HookCaptureResponseHeaders
    \/ CreateFilteredSpan

SpecHttpHeaders == InitHttpHeaders /\ [][NextHttpHeaders]_vars

----------------------------------------------------------------------------
(* C32: the headers of the http instrumentation pass the header filter *)

\* The string values the exported attributes show for a header name, under a
\* dotted key of any prefix or inside an object.
ExportedValues(attributes, name) ==
    {attributes[i].value.items[1] :
        i \in {j \in 1..Len(attributes) :
                 Len(attributes[j].key) > 2
                   /\ toLowerCase(slice(attributes[j].key, 2)) = toLowerCase(name)}}
      \cup UNION {{attributes[i].value.items[k].value.items[1] :
                      k \in {m \in 1..Len(attributes[i].value.items) :
                               toLowerCase(attributes[i].value.items[m].name)
                                 = toLowerCase(name)}} :
                  i \in {j \in 1..Len(attributes) : attributes[j].value.tag = "record"}}

\* C32: every header the node http instrumentation recorded has passed the
\* header filter when the span's attributes are handed to the exporter: a
\* header on the deny list or outside a non-empty allow list is not exported,
\* and with redaction enabled an Authorization value is never exported in
\* clear.
C32_HttpHeadersFiltered ==
    (call.op \in {"http.requestHook", "http.responseHook"} /\ ret # {}
        /\ ValueOf(ret).stage = "exported") =>
        \A name \in MessageHeaderNames :
            LET shown == ExportedValues(ValueOf(ret).attributes, name)
            IN  /\ ~SurvivesLists(name, call.globalHeadersAllowList,
                                  call.globalHeadersDenyList) => shown = {}
                /\ (RedactionEnabled(call.headerRedaction) /\ name = H_Authorization)
                      => V_Bearer \notin shown

----------------------------------------------------------------------------
(* C33: the allow list at the processor *)

\* The URL onEnd filters a span by: http.url, url.full, or https:// and
\* server.address; empty when the span has none of them.
FilterUrl(span) ==
    LET address == getAttribute(span.attributes, "server.address")
    IN  IF UrlAttribute(span.attributes) # <<>> THEN UrlAttribute(span.attributes)
        ELSE IF IsDefined(address) THEN HTTPS \o ValueOf(address)
        ELSE <<>>

\* C33: with a non-empty domain allow list configured, every span handed to
\* the underlying processor has a URL whose domain and path some allow rule
\* matches; an eligible span without http.url, url.full and server.address is
\* not handed over.
C33_ProcessorGate ==
    (IsDefined(processorConfig.domainAllowList)
        /\ Len(ValueOf(processorConfig.domainAllowList)) > 0) =>
        \A i \in 1..Len(exported) :
            /\ FilterUrl(exported[i]) # <<>>
            /\ AllowedByList(extractDomain(FilterUrl(exported[i])),
                             extractPath(FilterUrl(exported[i])),
                             ValueOf(processorConfig.domainAllowList))

\* What holds: a handed-over span that has a URL is matched by an allow rule.
C33_GateForSpansWithUrl ==
    (IsDefined(processorConfig.domainAllowList)
        /\ Len(ValueOf(processorConfig.domainAllowList)) > 0) =>
        \A i \in 1..Len(exported) :
            FilterUrl(exported[i]) # <<>> =>
                AllowedByList(extractDomain(FilterUrl(exported[i])),
                              extractPath(FilterUrl(exported[i])),
                              ValueOf(processorConfig.domainAllowList))

----------------------------------------------------------------------------
(* C34: one capture decision for a call *)

\* The bytes counted for a side are those of no chunk or of every chunk
\* delivered so far, or the side went over the ceiling.
AllOrNone(size, delivered) == size \in {0, Infinity, Len(delivered)}

\* C34: the capture policy of a call is resolved once, so that every event of
\* the call sees the same decision, also when the active context differs
\* between the events: of the chunks of a body delivered so far, either all
\* were considered or all were ignored.
C34_ResolvedOnce ==
    \A r \in Reqs :
        IsDefined(recordFromReq[r]) =>
            /\ observed[r].requestSide = "streaming"
                 => AllOrNone(ValueOf(recordFromReq[r]).requestBodySize, observed[r].sent)
            /\ AllOrNone(ValueOf(recordFromReq[r]).responseBodySize, observed[r].received)

\* What holds: the chunks are all considered or all ignored when the decision
\* of the side is the same in every context the events came in.
C34_SameDecisionSameTreatment ==
    \A r \in Reqs :
        IsDefined(recordFromReq[r]) =>
            /\ (observed[r].requestSide = "streaming"
                  /\ \A c1, c2 \in observed[r].contexts :
                        DecisionAt(r, "request", c1) = DecisionAt(r, "request", c2))
                 => AllOrNone(ValueOf(recordFromReq[r]).requestBodySize, observed[r].sent)
            /\ (\A c1, c2 \in observed[r].contexts :
                    DecisionAt(r, "response", c1) = DecisionAt(r, "response", c2))
                 => AllOrNone(ValueOf(recordFromReq[r]).responseBodySize, observed[r].received)

----------------------------------------------------------------------------
(* C35: the request body and the order of body-sent and trailers *)

\* The call of r was captured on the request side at every event, its request
\* body is within the ceiling, body-sent was delivered and the span was ended
\* by the trailers.
RequestBodyDue(r) ==
    /\ Tracked(r)
    /\ observed[r].terminals # <<>> /\ observed[r].terminals[1] = "trailers"
    /\ observed[r].requestSide = "finalized"
    /\ AlwaysCaptured(r, "request", observed)
    /\ Len(observed[r].sent) >= 1 /\ LessOrEqual(Len(observed[r].sent), maxRequestBodySize)

\* C35: for a tracked call with request-body capture enabled and a request
\* body within the ceiling, the ended span carries http.request.body in every
\* interleaving of body-sent with the response headers and the trailers, also
\* when the trailers come before body-sent.
C35_RequestBodyInEveryOrder ==
    \A r \in Reqs :
        RequestBodyDue(r) => IsDefined(getAttribute(SpanOf(r).attributes, HTTP_REQUEST_BODY))

\* What holds: when body-sent came before the trailers, the span the trailers
\* end carries the request body.
C35_BodySentFirstStep(r) ==
    (/\ TerminalDelivered(r) /\ observed'[r].terminals = <<"trailers">>
     /\ observed[r].requestSide = "finalized"
     /\ Tracked(r) /\ AlwaysCaptured(r, "request", observed')
     /\ Len(observed[r].sent) >= 1 /\ LessOrEqual(Len(observed[r].sent), maxRequestBodySize))
    => getAttribute(ValueOf(spans'[r]).attributes, HTTP_REQUEST_BODY)
          = Some(toStringUtf8(observed[r].sent))

C35_BodySentFirst == [][\A r \in Reqs : C35_BodySentFirstStep(r)]_vars

----------------------------------------------------------------------------
(* C36: the buffers of a record *)

\* A side of a record is truncated with nothing buffered, or its counter is
\* the number of the buffered bytes and within the ceiling.
SideInvariant(size, chunks, ceiling) ==
    \/ size = Infinity /\ chunks = <<>>
    \/ size = Len(BufferConcat(chunks)) /\ LessOrEqual(size, ceiling)

C36_SidesWellFormed ==
    \A r \in Reqs :
        IsDefined(recordFromReq[r]) =>
            LET record == ValueOf(recordFromReq[r])
            IN  /\ observed[r].requestSide = "streaming"
                     => SideInvariant(record.requestBodySize, record.requestBodyChunks,
                                      maxRequestBodySize)
                /\ SideInvariant(record.responseBodySize, record.responseBodyChunks,
                                 maxResponseBodySize)

\* A truncated side stays truncated and buffers nothing.
C36_TruncationAbsorbing ==
    \A r \in Reqs :
        (IsDefined(recordFromReq[r]) /\ IsDefined(recordFromReq'[r])) =>
            LET record == ValueOf(recordFromReq[r])
                after == ValueOf(recordFromReq'[r])
            IN  /\ record.requestBodySize = Infinity
                     => after.requestBodySize = Infinity /\ after.requestBodyChunks = <<>>
                /\ record.responseBodySize = Infinity
                     => after.responseBodySize = Infinity /\ after.responseBodyChunks = <<>>

\* C36: for each side of every tracked record, until the side is finalized,
\* either the side is truncated and its chunk list is empty, or its byte
\* counter is the sum of the buffered chunk lengths and at most the ceiling;
\* once a side is truncated no later chunk is buffered again.
C36_BufferInvariant == [](C36_SidesWellFormed) /\ [][C36_TruncationAbsorbing]_vars

\* Response chunks of 2, 1 and 1 bytes under a ceiling of 2, all captured: the
\* second truncated the side and the third came after.
C36_Witness ==
    \E r \in Reqs :
        /\ IsDefined(recordFromReq[r])
        /\ AlwaysCaptured(r, "response", observed)
        /\ maxResponseBodySize = SmallBodySize
        /\ observed[r].received = <<98, 255, 97, 97>>
        /\ ValueOf(recordFromReq[r]).responseBodySize = Infinity
        /\ ValueOf(recordFromReq[r]).responseBodyChunks = <<>>

----------------------------------------------------------------------------
(* The exporter's own requests: the constructor of PingopsSpanProcessor      *)
(* fills the config store, and onRequestCreated asks the suppression guard   *)
(* for the parent context of the span.                                       *)

\* `${config.baseUrl}/v1/traces`, the URL the OTLP exporter posts to.
V1_TRACES == <<"/", "v", "1", "/", "t", "r", "a", "c", "e", "s">>
ExporterUrl(baseUrl) == baseUrl \o V1_TRACES

\* The object the constructor passes to setGlobalConfig.
ConstructorGlobalConfig(config) ==
    GlobalConfig(config.captureRequestBody, config.captureResponseBody,
                 config.domainAllowList, config.maxRequestBodySize,
                 config.maxResponseBodySize)

\* getGlobalConfig()?.exportTraceUrl
exportTraceUrlOf(globalConfig) ==
    IF IsDefined(globalConfig) /\ "exportTraceUrl" \in DOMAIN ValueOf(globalConfig)
    THEN ValueOf(globalConfig).exportTraceUrl
    ELSE Undefined

FeedbackBaseUrls == {HTTPS_P, HTTPS \o <<"a">>, HTTPS \o <<"p", ".", "a">>}
FeedbackConfigs ==
    {[baseUrl |-> b, captureRequestBody |-> q, captureResponseBody |-> Undefined,
      domainAllowList |-> l, maxRequestBodySize |-> Undefined,
      maxResponseBodySize |-> Undefined] :
        b \in FeedbackBaseUrls, q \in OptionalBooleans,
        l \in {Undefined, Some(<<PathRule(<<"a">>, Undefined)>>)}}

InitFeedback ==
    /\ call \in [op : {"exporter"}, config : FeedbackConfigs,
                 activeContext : GuardContexts,
                 query : {<<>>, <<"/", "x">>}]
    /\ ret = {} /\ NoTracker

\* new PingopsSpanProcessor(config): the config store after the constructor.
ConstructProcessor ==
    /\ call.op = "exporter" /\ ret = {}
    /\ ret' = {[stage |-> "constructed",
                globalConfig |-> Some(ConstructorGlobalConfig(call.config))]}
    /\ UNCHANGED call /\ UNCHANGED trackerVars

\* onRequestCreated for a request of the exporter: the parent context of the
\* span, and whether the span started under it records.
ExporterRequestCreated ==
    /\ call.op = "exporter" /\ ret # {} /\ ValueOf(ret).stage = "constructed"
    /\ LET spanParentContext ==
               resolveOutboundSpanParentContext(call.activeContext,
                   Some(ExporterUrl(call.config.baseUrl) \o call.query),
                   exportTraceUrlOf(ValueOf(ret).globalConfig))
       IN  ret' = {[stage |-> "requested",
                    globalConfig |-> ValueOf(ret).globalConfig,
                    spanParentContext |-> spanParentContext,
                    recording |-> ~spanParentContext.suppressed]}
    /\ UNCHANGED call /\ UNCHANGED trackerVars

NextFeedback == ConstructProcessor \/ ExporterRequestCreated

SpecFeedback == InitFeedback /\ [][NextFeedback]_vars

----------------------------------------------------------------------------
(* C37: no span for the exporter's own traffic *)

\* C37: once a PingopsSpanProcessor has been constructed with base URL B, a
\* request to B/v1/traces made under a suppressed context is recognized as an
\* exporter request and keeps its suppressed context, so that no span is
\* recorded for it.
C37_NoFeedbackLoop ==
    (call.op = "exporter" /\ ret # {} /\ ValueOf(ret).stage = "requested"
        /\ call.activeContext.suppressed) =>
        /\ ValueOf(ret).spanParentContext = call.activeContext
        /\ ~ValueOf(ret).recording

----------------------------------------------------------------------------
(* C38: the instrumentations of every NodeSDK *)
(* sdk.instrumentations[i] is what the i-th NodeSDK was constructed with.   *)

\* C38: in any sequence of initializePingops and shutdownPingops calls, every
\* initializePingops that starts a NodeSDK, also one that follows a completed
\* shutdownPingops, hands the HTTP and the Undici instrumentation to that
\* NodeSDK.
C38_EveryNodeSdkInstrumented ==
    \A i \in 1..Len(sdk.instrumentations) :
        sdk.instrumentations[i] = {"http", "undici"}

\* What holds: the first NodeSDK of the process gets both instrumentations.
C38_FirstNodeSdkInstrumented ==
    Len(sdk.instrumentations) >= 1 => sdk.instrumentations[1] = {"http", "undici"}

----------------------------------------------------------------------------
(* C39: overlapping startTrace calls and the one initialization *)

\* The startTrace call of t is past ensureInitialized and has not run fn yet.
\* It was issued with the SDK uninitialized, and no shutdown came since.
WentOnUninitialized(t) ==
    /\ sdk.traces[t].at = "ready"
    /\ ~sdk.traces[t].issuedInitialized
    /\ sdk.traces[t].issuedAfter = sdk.shutdowns

\* C39: when several startTrace calls overlap while the SDK is uninitialized,
\* every one of them waits for the single initialization, and goes on only
\* after it succeeded: two such calls that are both past ensureInitialized
\* find the SDK initialized.
C39_OverlappingCallersWait ==
    \A t1, t2 \in TraceIds :
        (t1 # t2 /\ WentOnUninitialized(t1) /\ WentOnUninitialized(t2))
            => sdk.isSdkInitializedFlag

\* An initialization in progress has a startTrace waiting for it.
C39_PendingHasWaiter ==
    sdk.initializationPromise => \E t \in TraceIds : sdk.traces[t].at = "awaiting"

\* A startTrace call starts no NodeSDK by itself, and one that finds an
\* initialization in progress, and the flag of ensureInitialized unset, waits
\* for that one.
C39_StartTraceStep ==
    (call'.op = "startTrace" /\ call'.count = call.count + 1) =>
        /\ sdk'.started = sdk.started
        /\ (sdk.initializationPromise /\ ~isSdkInitialized(sdk) /\ ~sdk.isInitialized)
              => /\ sdk'.initializationPromise
                 /\ sdk'.traces[call'.trace].at = "awaiting"
                 /\ \A t \in TraceIds : sdk.traces[t].at = "awaiting"
                                           => sdk'.traces[t].at = "awaiting"

\* The initialization settling: at most one NodeSDK is started, every waiting
\* startTrace goes on when it succeeded and is rejected when it failed, and
\* after a failure nothing is left that keeps a later startTrace from trying.
C39_SettleStep ==
    (sdk.initializationPromise /\ ~sdk'.initializationPromise) =>
        /\ sdk'.started \in {sdk.started, sdk.started + 1}
        /\ \A t \in TraceIds :
              sdk.traces[t].at = "awaiting" =>
                  sdk'.traces[t].at = (IF REQUIRED_ENV \subseteq sdk.env
                                       THEN "ready" ELSE "rejected")
        /\ ~(REQUIRED_ENV \subseteq sdk.env)
              => (sdk'.started = sdk.started /\ sdk'.isInitialized = sdk.isInitialized)

\* What holds: while the flag of ensureInitialized is unset, overlapping
\* calls share one initialization, which starts at most one NodeSDK and lets
\* them go on or rejects them all, and a failed one can be tried again.
C39_SingleInitialization ==
    [](C39_PendingHasWaiter) /\ [][C39_StartTraceStep /\ C39_SettleStep]_vars

----------------------------------------------------------------------------
(* The subscriptions of UndiciInstrumentation: enable(), disable() and       *)
(* subscribeToChannel() of .../instrumentations/undici/undici.ts.            *)
(* undici.subscribers[c] holds the listeners subscribed to channel c: the    *)
(* functions this instrumentation bound, each a new one, and those of        *)
(* others.                                                                   *)

MaxToggles == 6

\* The channels enable() subscribes to, in its order.
CHANNELS ==
    <<"undici:request:create", "undici:client:sendHeaders", "undici:request:headers",
      "undici:request:trailers", "undici:request:error", "undici:request:bodyChunkSent",
      "undici:request:bodySent", "undici:request:bodyChunkReceived">>

ChannelNames == {CHANNELS[i] : i \in 1..Len(CHANNELS)}

\* The function handler.bind(this) returns at the n-th enable() that binds.
Bound(channel, n) == [owner |-> "pingops-undici", channel |-> channel, bound |-> n]

\* A listener of another party.
OtherListener(channel) == [owner |-> "other", channel |-> channel, bound |-> 0]

\* subscribeToChannel: the listener is subscribed, by diagch.subscribe or by
\* channel.subscribe as the version of Node has it, and its record is pushed.
subscribeToChannel(u, diagnosticChannel, onMessage) ==
    [u EXCEPT !.subscribers[diagnosticChannel] = @ \cup {onMessage},
              !.channelSubs = Some(Append(ValueOf(@),
                                  [name |-> diagnosticChannel, listener |-> onMessage]))]

RECURSIVE SubscribeFrom(_, _)
SubscribeFrom(u, i) ==
    IF i > Len(CHANNELS) THEN u
    ELSE SubscribeFrom(subscribeToChannel(u, CHANNELS[i], Bound(CHANNELS[i], u.binds)), i + 1)

\* enable() subscribing whatever _channelSubs holds.
enable_noGuard(u) ==
    LET initialized == [u EXCEPT !.channelSubs = IF IsDefined(@) THEN @ ELSE Some(<<>>),
                                 !.binds = @ + 1]
    IN  SubscribeFrom(initialized, 1)

enable(u) ==
    LET initialized == [u EXCEPT !.channelSubs = IF IsDefined(@) THEN @ ELSE Some(<<>>)]
    IN  IF Len(ValueOf(initialized.channelSubs)) > 0 THEN initialized
        ELSE SubscribeFrom([initialized EXCEPT !.binds = @ + 1], 1)

\* disable(): every record's unsubscribe(), then the list is emptied.
disable(u) ==
    [u EXCEPT !.subscribers = [c \in ChannelNames |->
                                 @[c] \ {ValueOf(u.channelSubs)[i].listener :
                                            i \in 1..Len(ValueOf(u.channelSubs))}],
              !.channelSubs = Some(<<>>)]

UndiciUnchanged ==
    UNCHANGED <<processorConfig, requests, recordFromReq, spans, exported,
                observed, logger, httpHook, sdk>>

Enable ==
    /\ call.count < MaxToggles
    /\ call' = [op |-> "enable", count |-> call.count + 1,
                trail |-> Append(call.trail, "enable")]
    /\ undici' = enable(undici)
    /\ ret' = {"returned"}
    /\ UndiciUnchanged

\* Before the first enable() _channelSubs is undefined and forEach raises.
Disable ==
    /\ call.count < MaxToggles
    /\ call' = [op |-> "disable", count |-> call.count + 1,
                trail |-> Append(call.trail, "disable")]
    /\ IF IsDefined(undici.channelSubs)
       THEN undici' = disable(undici) /\ ret' = {"returned"}
       ELSE UNCHANGED undici /\ ret' = {"thrown"}
    /\ UndiciUnchanged

\* After the constructor: the base class has called enable(), or it has not
\* (enabled: false); another party listens on a channel or on none.
InitUndici ==
    /\ call = [op |-> "constructor", count |-> 0, trail |-> <<>>] /\ ret = {}
    /\ \E others \in {{}, {CHANNELS[1]}}, enabled \in BOOLEAN :
          LET constructed ==
                  [channelSubs |-> Undefined, binds |-> 0,
                   subscribers |-> [c \in ChannelNames |->
                                      IF c \in others THEN {OtherListener(c)} ELSE {}]]
          IN  undici = IF enabled THEN enable(constructed) ELSE constructed
    /\ processorConfig = <<>> /\ requests = <<>> /\ recordFromReq = <<>>
    /\ spans = <<>> /\ exported = <<>> /\ observed = <<>> /\ logger = <<>>
    /\ httpHook = <<>> /\ sdk = <<>>

NextUndici == Enable \/ Disable

SpecUndici == InitUndici /\ [][NextUndici]_vars

----------------------------------------------------------------------------
(* C40: one subscription per channel *)

\* The listeners of this instrumentation on a channel.
OwnSubscriptions(c) == {l \in undici.subscribers[c] : l.owner = "pingops-undici"}

\* C40: after any sequence of enable() and disable() calls, each of the eight
\* channels has exactly one subscription of this instrumentation if the last
\* call was enable() and none if the last call was disable(); a repeated
\* enable() never subscribes a channel twice.
C40_Subscriptions ==
    /\ Len(CHANNELS) = 8 /\ Cardinality(ChannelNames) = 8
    /\ \A c \in ChannelNames :
          /\ call.op = "enable" => Cardinality(OwnSubscriptions(c)) = 1
          /\ call.op = "disable" => OwnSubscriptions(c) = {}
          /\ Cardinality(OwnSubscriptions(c)) <= 1

\* enable() twice, disable(), enable() twice: one subscription per channel,
\* of the second binding.
C40_Witness ==
    /\ call.trail = <<"enable", "enable", "disable", "enable", "enable">>
    /\ \A c \in ChannelNames : \E n \in 1..MaxToggles : OwnSubscriptions(c) = {Bound(c, n)}
    /\ \A c \in ChannelNames : undici.subscribers[c] \ OwnSubscriptions(c) # {} <=> c = CHANNELS[1]
    /\ Len(ValueOf(undici.channelSubs)) = 8

====
